---- MODULE Spec2Model ----
(***************************************************************************)
(* Agent control loop of airsim-drone-agent: ToolRegistry (validation and  *)
(* dispatch), DroneAgent.step (one model round-trip, validation gate,      *)
(* ordered execution) and DroneAgent.chat (multi-step conversation).       *)
(* Specifications: SpecStep (one step), Spec and FairSpec (step and chat), *)
(* SpecRegistry (the registry called directly), SpecParser (the response  *)
(* parser on token texts), SpecObserver (one step, observer may raise),    *)
(* SpecRechat (two conversations on one agent), SpecLogging (threads       *)
(* calling utils/logger.py), SpecGradioChat and SpecGradioBuffers (threads *)
(* on one GradioUI), SpecConnect (ConnectionManager.connect).              *)
(*                                                                         *)
(* Python values are encoded so that every field keeps one TLA+ type:      *)
(*   None            -> Null                                               *)
(*   missing dict key-> Absent (strings), ArgsAbsent, ResAbsent, NoMsg     *)
(*   True / False    -> PyTrue / PyFalse                                   *)
(*   a JSON object used as `arguments` -> ArgsMap(set of <<key, value>>)   *)
(*   a message string -> a sequence of its parts                           *)
(***************************************************************************)
EXTENDS Integers, Sequences, FiniteSets, TLC

\* ------------------------------------------------------------------ bounds
\* longest call list the model collaborator returns in SpecStep
MaxCalls == 3
\* longest JSON array in the texts given to _extract_plan_and_tool_calls
MaxItems == 2
\* largest max_steps passed to chat
MaxSteps == 3
\* threads that call the logging module, and calls each of them makes
MaxThreads == 2
MaxLogCalls == 2
\* chat requests the web interface handles at the same time
MaxRequests == 2
\* add_llm_output and add_tool_call notifications an observer receives
MaxLlmAdds == 101
MaxToolAdds == 51
\* largest ConnectionConfig.max_retries
MaxRetries == 3

\* ------------------------------------------------------------ value coding
Null == "None"
Absent == "<absent>"
PyTrue == "True"
PyFalse == "False"
NoMsg == << >>

ArgsMap(kv) == [tag |-> "map", kv |-> kv]
ArgsNull == [tag |-> "null", kv |-> {}]
ArgsAbsent == [tag |-> "absent", kv |-> {}]

ResNone == [kind |-> "none", camera |-> ""]
ResAbsent == [kind |-> "absent", camera |-> ""]
ResImage(c) == [kind |-> "image", camera |-> c]

\* a parsed tool-call object: a dict that always has the key tool_name
ToolCall(name, args, reason) == [tool_name |-> name, arguments |-> args, reason |-> reason]

\* tool_call.get("arguments", {})
GetArguments(tc) == IF tc.arguments = ArgsAbsent THEN ArgsMap({}) ELSE tc.arguments

\* ------------------------------------------------------------ ToolRegistry
CameraNames == {"FRONT_CENTER", "FRONT_LEFT", "FRONT_RIGHT", "BACK_CENTER", "BOTTOM_CENTER"}

\* tools.py 197-199: what register stores under a name; required is
\* parameters["required"], accepted the keyword names func takes, func the
\* identity of the binding
Entry(name, description, required, accepted, func) ==
  [name |-> name, description |-> description, required |-> required,
   accepted |-> accepted, func |-> func]

\* an entry of _register_all_tools: its binding is the lambda written for that
\* tool, named here after the tool
Tool(name, required, accepted) == Entry(name, name, required, accepted, name)

\* the registry after ToolRegistry.__init__: one entry per register call, in order
RegisteredTools ==
  << Tool("arm", <<"armed">>, {"armed"}),
     Tool("takeoff", << >>, {"timeout_sec"}),
     Tool("land", << >>, {"timeout_sec"}),
     Tool("hover", << >>, {}),
     Tool("move_to_position", <<"x", "y", "z">>, {"x", "y", "z", "velocity", "timeout_sec"}),
     Tool("move_to_z", <<"z">>, {"z", "velocity", "timeout_sec"}),
     Tool("move_on_path", <<"path">>, {"path", "velocity", "timeout_sec"}),
     Tool("get_camera_image", <<"camera">>, {"camera"}) >>

HasTool(reg, name) == \E i \in 1..Len(reg) : reg[i].name = name

GetTool(reg, name) == reg[CHOOSE i \in 1..Len(reg) : reg[i].name = name]

\* mutant: an existing name keeps its first entry
RegisterKeepsFirst(reg, entry) ==
  IF HasTool(reg, entry.name) THEN reg ELSE Append(reg, entry)

\* ToolRegistry.register: self.tools[name] = Tool(...); a dict keeps the
\* position of a key that is assigned again
Register(reg, entry) ==
  IF HasTool(reg, entry.name)
  THEN [i \in 1..Len(reg) |-> IF reg[i].name = entry.name THEN entry ELSE reg[i]]
  ELSE Append(reg, entry)

\* ", ".join(required) as text pieces
JoinRequired(required) ==
  LET RECURSIVE From(_)
      From(k) == IF k > Len(required) THEN << >>
                 ELSE (IF k > 1 THEN <<", ">> ELSE << >>) \o <<required[k]>> \o From(k + 1)
  IN From(1)

\* tools.py 225-227: the line of one tool
SummaryLine(tool) ==
  <<"- ", tool.name, ": ", tool.description, " (">>
  \o (IF tool.required # << >> THEN <<"required: ">> \o JoinRequired(tool.required)
      ELSE <<"no required params">>)
  \o <<")">>

\* mutant: tools without required parameters are left out
ListToolsSummarySkipsMarker(reg) ==
  LET RECURSIVE From(_, _)
      From(k, first) ==
        IF k > Len(reg) THEN << >>
        ELSE IF reg[k].required = << >> THEN From(k + 1, first)
        ELSE (IF first THEN << >> ELSE <<"\n">>) \o SummaryLine(reg[k]) \o From(k + 1, FALSE)
  IN From(1, TRUE)

\* ToolRegistry.list_tools_summary: "\n".join of the lines of
\* self.tools.values(), as text pieces
ListToolsSummary(reg) ==
  LET RECURSIVE From(_)
      From(k) == IF k > Len(reg) THEN << >>
                 ELSE (IF k > 1 THEN <<"\n">> ELSE << >>) \o SummaryLine(reg[k]) \o From(k + 1)
  IN From(1)

\* p in arguments and arguments[p] is not None
Supplied(arguments, p) == \E e \in arguments.kv : e[1] = p /\ e[2] # Null

Ret(ok, msg) == [raised |-> FALSE, ok |-> ok, msg |-> msg]
RaisedTypeError == [raised |-> TRUE, ok |-> FALSE, msg |-> <<"TypeError">>]

\* mutant: a required name mapped to None counts as supplied
ValidateArgumentsPresenceOnly(reg, name, arguments) ==
  IF ~HasTool(reg, name) THEN Ret(FALSE, <<"unknown tool", name>>)
  ELSE LET required == GetTool(reg, name).required
       IN IF required = << >> THEN Ret(TRUE, NoMsg)
          ELSE IF arguments.tag # "map" THEN RaisedTypeError
          ELSE LET missing == SelectSeq(required,
                                LAMBDA p : ~(\E e \in arguments.kv : e[1] = p))
               IN IF missing # << >> THEN Ret(FALSE, <<"missing required parameters">> \o missing)
                  ELSE Ret(TRUE, NoMsg)

\* ToolRegistry.validate_arguments
ValidateArguments(reg, name, arguments) ==
  IF ~HasTool(reg, name) THEN Ret(FALSE, <<"unknown tool", name>>)
  ELSE LET required == GetTool(reg, name).required
       IN IF required = << >> THEN Ret(TRUE, NoMsg)
          ELSE IF arguments.tag # "map" THEN RaisedTypeError
          ELSE LET missing == SelectSeq(required, LAMBDA p : ~Supplied(arguments, p))
               IN IF missing # << >> THEN Ret(FALSE, <<"missing required parameters">> \o missing)
                  ELSE Ret(TRUE, NoMsg)

\* the class of the exception that leaves call_tool with message msg:
\* ValueError at tools.py 258 and 263, RuntimeError at 268, and the TypeError
\* that validate_arguments lets through
ExcType(msg) ==
  IF msg = <<"TypeError">> THEN "TypeError"
  ELSE IF msg[1] = "tool call failed" THEN "RuntimeError"
  ELSE "ValueError"

\* how a call of call_tool ends; invoked tells whether the call
\* tool.func(**arguments) of line 266 was made
Raises(msg, called) ==
  [raised |-> TRUE, msg |-> msg, result |-> ResAbsent, invoked |-> called,
   etype |-> ExcType(msg)]
Returns(result) ==
  [raised |-> FALSE, msg |-> NoMsg, result |-> result, invoked |-> TRUE, etype |-> Absent]

\* mutant: the exception of the binding is let through as it is
Unwrapped(cause) == <<cause>>

\* tools.py 268: RuntimeError(f"... {str(e)}") from e
Wrapped(cause) == <<"tool call failed", cause>>

\* bindings registered after construction to stand in for a tool
StubFuncs == {"stub_a", "stub_b"}

\* what a stand-in binding returns: a value that tells which binding ran
ResStub(func) == [kind |-> func, camera |-> ""]

\* the ways tool.func(**arguments) can end once the call is made: the
\* actuation collaborator returns or raises; _get_camera_image rejects an
\* unknown camera name before it touches the simulator; a stand-in returns
\* its own value or raises
BindingOutcomes(func, arguments) ==
  IF func = "get_camera_image"
  THEN LET cam == CHOOSE e \in arguments.kv : e[1] = "camera"
       IN IF cam[2] \notin CameraNames
          THEN {Raises(Wrapped("unknown camera"), TRUE)}
          ELSE {Returns(ResImage(cam[2])), Raises(Wrapped("simulator error"), TRUE)}
  ELSE IF func \in StubFuncs
  THEN {Returns(ResStub(func)), Raises(Wrapped("stub error"), TRUE)}
  ELSE {Returns(ResNone), Raises(Wrapped("simulator error"), TRUE)}

\* mutant: arguments are not validated before the binding is called
CallToolSkipsValidation(reg, name, arguments) ==
  IF ~HasTool(reg, name) THEN {Raises(<<"unknown tool", name>>, FALSE)}
  ELSE IF arguments.tag # "map" THEN {Raises(Wrapped("TypeError"), TRUE)}
  ELSE IF ~({e[1] : e \in arguments.kv} \subseteq GetTool(reg, name).accepted)
  THEN {Raises(Wrapped("TypeError"), TRUE)}
  ELSE IF \E k \in 1..Len(GetTool(reg, name).required) :
            GetTool(reg, name).required[k] \notin {e[1] : e \in arguments.kv}
  THEN {Raises(Wrapped("TypeError"), TRUE)}
  ELSE BindingOutcomes(GetTool(reg, name).func, arguments)

\* ToolRegistry.call_tool: every way the call can end. Once validation has
\* passed, line 266 makes the call tool.func(**arguments); Python raises
\* TypeError at that call when arguments is not a mapping or holds a keyword
\* the binding does not take
CallTool(reg, name, arguments) ==
  IF ~HasTool(reg, name) THEN {Raises(<<"unknown tool", name>>, FALSE)}
  ELSE LET v == ValidateArguments(reg, name, arguments)
       IN IF v.raised \/ ~v.ok THEN {Raises(v.msg, FALSE)}
          ELSE IF arguments.tag # "map" THEN {Raises(Wrapped("TypeError"), TRUE)}
          ELSE IF ~({e[1] : e \in arguments.kv} \subseteq GetTool(reg, name).accepted)
          THEN {Raises(Wrapped("TypeError"), TRUE)}
          ELSE BindingOutcomes(GetTool(reg, name).func, arguments)

\* ---------------------------------------------------------- step outcomes
CallList(present, list) == [present |-> present, list |-> list]
NoList == CallList(FALSE, << >>)

\* fixed reason strings of DroneAgent.step
ReasonNoParse == "cannot parse tool call"
ReasonDefault == "no tool invoked"
ReasonEmptyName == "empty tool_name in tool list"

NoOutcome ==
  [tool_name |-> Absent, arguments |-> ArgsAbsent, result |-> ResAbsent, success |-> Absent,
   error |-> NoMsg, error_type |-> Absent, plan |-> Absent, tool_calls |-> NoList,
   results |-> NoList, reason |-> Absent, llm_response |-> Absent]

\* agent.py 316-322
NoCallOutcome(plan, text) ==
  [NoOutcome EXCEPT !.tool_name = Null, !.tool_calls = CallList(TRUE, << >>),
                    !.reason = ReasonNoParse, !.llm_response = text, !.plan = plan]

\* mutant: tool_calls[0].get("reason") without the default
DeclineOutcomeNoDefault(plan, calls, text) ==
  [NoOutcome EXCEPT !.tool_name = Null, !.tool_calls = CallList(TRUE, calls),
                    !.reason = IF calls[1].reason = Absent THEN Null ELSE calls[1].reason,
                    !.llm_response = text, !.plan = plan]

\* agent.py 326-332: tool_calls[0].get("reason", default)
DeclineOutcome(plan, calls, text) ==
  [NoOutcome EXCEPT !.tool_name = Null, !.tool_calls = CallList(TRUE, calls),
                    !.reason = IF calls[1].reason = Absent THEN ReasonDefault ELSE calls[1].reason,
                    !.llm_response = text, !.plan = plan]

\* mutant: the empty-name outcome is marked as a failure
EmptyNameOutcomeFailed(plan, calls, text) ==
  [NoOutcome EXCEPT !.tool_name = Null, !.tool_calls = CallList(TRUE, calls),
                    !.reason = ReasonEmptyName, !.llm_response = text, !.plan = plan,
                    !.success = PyFalse]

\* agent.py 339-345
EmptyNameOutcome(plan, calls, text) ==
  [NoOutcome EXCEPT !.tool_name = Null, !.tool_calls = CallList(TRUE, calls),
                    !.reason = ReasonEmptyName, !.llm_response = text, !.plan = plan]

\* agent.py 349-357
ValidationFailure(plan, name, arguments, msg) ==
  [NoOutcome EXCEPT !.tool_name = name, !.arguments = arguments, !.result = ResNone,
                    !.success = PyFalse, !.error = msg,
                    !.error_type = "missing_required_parameters", !.plan = plan]

\* agent.py 366-372
ResultDict(plan, name, arguments, result) ==
  [NoOutcome EXCEPT !.tool_name = name, !.arguments = arguments, !.result = result,
                    !.success = PyTrue, !.plan = plan]

\* agent.py 379-387
FailedResultDict(plan, name, arguments, msg) ==
  [NoOutcome EXCEPT !.tool_name = name, !.arguments = arguments, !.result = ResNone,
                    !.success = PyFalse, !.error = msg, !.error_type = "execution_error",
                    !.plan = plan]

\* agent.py 390-399
ExecutionFailure(plan, calls, done, name, msg) ==
  [NoOutcome EXCEPT !.tool_name = name, !.tool_calls = CallList(TRUE, calls),
                    !.results = CallList(TRUE, done), !.result = ResNone,
                    !.success = PyFalse, !.error = msg, !.error_type = "execution_error",
                    !.plan = plan]

\* agent.py 405-411
BatchOutcome(plan, calls, done) ==
  [NoOutcome EXCEPT !.tool_name = "__batch__", !.tool_calls = CallList(TRUE, calls),
                    !.results = CallList(TRUE, done), !.success = PyTrue, !.plan = plan]

\* mutant: a single call is reported as a batch too
SuccessOutcomeAlwaysBatch(plan, calls, done) == BatchOutcome(plan, calls, done)

\* agent.py 402-411
SuccessOutcome(plan, calls, done) ==
  IF Len(done) = 1 THEN done[1] ELSE BatchOutcome(plan, calls, done)

\* ------------------------------------------------------- validation gate
Min(S) == CHOOSE x \in S : \A y \in S : x <= y

\* the call at which the loop of agent.py 335-357 leaves the step: the first
\* one with a null tool_name or whose validation does not return ok
Stops(reg, calls) ==
  {i \in 1..Len(calls) :
     \/ calls[i].tool_name = Null
     \/ LET v == ValidateArguments(reg, calls[i].tool_name, GetArguments(calls[i]))
        IN v.raised \/ ~v.ok}

Decided(o) == [kind |-> "outcome", outcome |-> o]
GatePassed == [kind |-> "pass", outcome |-> NoOutcome]
GateRaised == [kind |-> "raised", outcome |-> NoOutcome]

\* mutant: only the first call is validated before execution starts
GateFirstCallOnly(reg, plan, calls, text) ==
  IF calls = << >> THEN Decided(NoCallOutcome(plan, text))
  ELSE IF Len(calls) = 1 /\ calls[1].tool_name = Null
  THEN Decided(DeclineOutcome(plan, calls, text))
  ELSE IF 1 \notin Stops(reg, calls) THEN GatePassed
  ELSE LET tc == calls[1]
           v == ValidateArguments(reg, tc.tool_name, GetArguments(tc))
       IN IF tc.tool_name = Null THEN Decided(EmptyNameOutcome(plan, calls, text))
          ELSE IF v.raised THEN GateRaised
          ELSE Decided(ValidationFailure(plan, tc.tool_name, GetArguments(tc), v.msg))

\* agent.py 315-357: what step does with the parsed response before it
\* executes anything
Gate(reg, plan, calls, text) ==
  IF calls = << >> THEN Decided(NoCallOutcome(plan, text))
  ELSE IF Len(calls) = 1 /\ calls[1].tool_name = Null
  THEN Decided(DeclineOutcome(plan, calls, text))
  ELSE IF Stops(reg, calls) = {} THEN GatePassed
  ELSE LET tc == calls[Min(Stops(reg, calls))]
           v == ValidateArguments(reg, tc.tool_name, GetArguments(tc))
       IN IF tc.tool_name = Null THEN Decided(EmptyNameOutcome(plan, calls, text))
          ELSE IF v.raised THEN GateRaised
          ELSE Decided(ValidationFailure(plan, tc.tool_name, GetArguments(tc), v.msg))

\* ------------------------------------------- what the model may answer
SeqsUpTo(S, n) == UNION {[1..k -> S] : k \in 0..n}

ArmOk == ToolCall("arm", ArgsMap({<<"armed", "true">>}), Absent)
ArmMissing == ToolCall("arm", ArgsMap({}), Absent)
ArmNullValue == ToolCall("arm", ArgsMap({<<"armed", Null>>}), Absent)
ArmNullArgs == ToolCall("arm", ArgsNull, Absent)
TakeoffNoArgs == ToolCall("takeoff", ArgsAbsent, Absent)
TakeoffNullArgs == ToolCall("takeoff", ArgsNull, Absent)
TakeoffExtraKey == ToolCall("takeoff", ArgsMap({<<"height", "5">>}), Absent)
CameraOk == ToolCall("get_camera_image", ArgsMap({<<"camera", "FRONT_LEFT">>}), Absent)
CameraBack == ToolCall("get_camera_image", ArgsMap({<<"camera", "BACK_CENTER">>}), Absent)
UnknownTool == ToolCall("fly_home", ArgsMap({}), Absent)
BatchNamed == ToolCall("__batch__", ArgsMap({}), Absent)
DeclineReason == ToolCall(Null, ArgsAbsent, "target reached")
DeclineNoReason == ToolCall(Null, ArgsAbsent, Absent)
DeclineNullReason == ToolCall(Null, ArgsAbsent, Null)

\* calls of the single-step specification
StepCalls ==
  {ArmOk, ArmMissing, ArmNullValue, ArmNullArgs, TakeoffNoArgs, TakeoffNullArgs,
   TakeoffExtraKey, CameraOk, UnknownTool, BatchNamed, DeclineReason,
   DeclineNoReason, DeclineNullReason}

\* calls of the conversation specification
ChatCalls == {ArmOk, CameraOk, ArmMissing, DeclineReason, DeclineNoReason}

Plans == {Null, "plan"}

Response(plan, calls) == [plan |-> plan, calls |-> calls]

\* parsed model answers: (plan_text, tool_calls) of agent.py 303
StepResponses == {Response(p, c) : p \in Plans, c \in SeqsUpTo(StepCalls, MaxCalls)}

\* call lists of the conversation specification: nothing, every single call,
\* and batches that succeed, fail validation or hold an empty tool name
ChatLists ==
  {<< >>} \cup {<<c>> : c \in ChatCalls}
  \cup {<<ArmOk, CameraOk>>, <<CameraOk, ArmOk>>, <<CameraBack, CameraOk>>,
        <<ArmOk, ArmMissing>>, <<ArmOk, DeclineReason>>}

ChatResponses == {Response(IF c = << >> THEN Null ELSE "plan", c) : c \in ChatLists}

\* result.text of the model answer, kept opaque
RawText == "raw"

\* ------------------------------------- _extract_plan_and_tool_calls
\* A text is a sequence of tokens, each token the piece of text it stands
\* for: a bracket, a comma, a colon, a JSON string literal with its quotes, a
\* number or literal, white space, or a word of free text. String literals
\* and words contain no bracket, brace or quote of their own.
Ws == {" ", "\n"}
Key == "\"tool_name\""
StringTokens ==
  {Key, "\"arguments\"", "\"reason\"", "\"name\"", "\"armed\"", "\"path\"", "\"x\"",
   "\"takeoff\"", "\"arm\"", "\"land\"", "\"hover\"", "\"move_on_path\"", "\"done\""}
ScalarTokens == StringTokens \cup {"1", "true", "null"}

Max(S) == CHOOSE x \in S : \A y \in S : x >= y

\* white space between JSON tokens means nothing to json.loads
Strip(t) == SelectSeq(t, LAMBDA x : x \notin Ws)

\* str.strip()
Trim(t) ==
  LET solid == {i \in 1..Len(t) : t[i] \notin Ws}
  IN IF solid = {} THEN << >> ELSE SubSeq(t, Min(solid), Max(solid))

\* the text a token sequence stands for
RECURSIVE Join(_)
Join(t) == IF t = << >> THEN "" ELSE Head(t) \o Join(Tail(t))

\* the JSON grammar over tokens without white space. ValueEnd(t, i) is the
\* index after the value that starts at t[i], 0 when no value starts there;
\* MembersEnd and ItemsEnd read on inside an object and an array
RECURSIVE ValueEnd(_, _), MembersEnd(_, _, _), ItemsEnd(_, _, _)
ValueEnd(t, i) ==
  IF i > Len(t) THEN 0
  ELSE IF t[i] = "{" THEN MembersEnd(t, i + 1, TRUE)
  ELSE IF t[i] = "[" THEN ItemsEnd(t, i + 1, TRUE)
  ELSE IF t[i] \in ScalarTokens THEN i + 1
  ELSE 0

MembersEnd(t, i, first) ==
  IF i > Len(t) THEN 0
  ELSE IF first /\ t[i] = "}" THEN i + 1
  ELSE IF i + 1 <= Len(t) /\ t[i] \in StringTokens /\ t[i + 1] = ":"
  THEN LET e == ValueEnd(t, i + 2)
       IN IF e = 0 \/ e > Len(t) THEN 0
          ELSE IF t[e] = "}" THEN e + 1
          ELSE IF t[e] = "," THEN MembersEnd(t, e + 1, FALSE)
          ELSE 0
  ELSE 0

ItemsEnd(t, i, first) ==
  IF i > Len(t) THEN 0
  ELSE IF first /\ t[i] = "]" THEN i + 1
  ELSE LET e == ValueEnd(t, i)
       IN IF e = 0 \/ e > Len(t) THEN 0
          ELSE IF t[e] = "]" THEN e + 1
          ELSE IF t[e] = "," THEN ItemsEnd(t, e + 1, FALSE)
          ELSE 0

\* json.loads: ok is false where it raises JSONDecodeError; the value is kept
\* as its tokens without white space
JsonLoads(t) ==
  LET s == Strip(t)
  IN [ok |-> s # << >> /\ ValueEnd(s, 1) = Len(s) + 1, value |-> s]

\* the keys of a parsed object
RECURSIVE KeysFrom(_, _)
KeysFrom(v, i) ==
  IF v[i] = "}" THEN {}
  ELSE LET e == ValueEnd(v, i + 2)
       IN {v[i]} \cup (IF v[e] = "," THEN KeysFrom(v, e + 1) ELSE {})

\* the elements of a parsed array, in order
RECURSIVE ItemsFrom(_, _)
ItemsFrom(v, i) ==
  IF v[i] = "]" THEN << >>
  ELSE LET e == ValueEnd(v, i)
       IN <<SubSeq(v, i, e - 1)>> \o (IF v[e] = "," THEN ItemsFrom(v, e + 1) ELSE << >>)

\* isinstance(p, dict) and "tool_name" in p
IsToolCall(v) == v[1] = "{" /\ Key \in KeysFrom(v, 2)

\* isinstance(parsed, list) and all(... for p in parsed)
IsToolCallList(v) ==
  /\ v[1] = "["
  /\ \A i \in 1..Len(ItemsFrom(v, 2)) : IsToolCall(ItemsFrom(v, 2)[i])

\* the first index from i on that holds no white space
SkipWs(t, i) == Min({j \in i..(Len(t) + 1) : j > Len(t) \/ t[j] \notin Ws})

NoMatch == [found |-> FALSE, start |-> 0, stop |-> 0]
Match(a, b) == [found |-> TRUE, start |-> a, stop |-> b]

\* where a match of \[\s*\{[^[]*"tool_name"[\s\S]*?\}\s*\] that starts at
\* t[i] ends, 0 when there is none: [^[]* is greedy, so the match takes the
\* last "tool_name" it can reach without crossing a [ and that still has a
\* } ] behind it; [\s\S]*? is lazy, so it ends at the first } ] after that
ListEndFrom(t, i) ==
  LET j == SkipWs(t, i + 1)
  IN IF t[i] # "[" \/ j > Len(t) THEN 0
     ELSE IF t[j] # "{" THEN 0
     ELSE LET closers(k) ==
                {e \in (k + 1)..Len(t) :
                   /\ t[e] = "}"
                   /\ SkipWs(t, e + 1) <= Len(t)
                   /\ t[SkipWs(t, e + 1)] = "]"}
              keys == {k \in (j + 1)..Len(t) :
                         /\ t[k] = Key
                         /\ \A m \in (j + 1)..(k - 1) : t[m] # "["
                         /\ closers(k) # {}}
          IN IF keys = {} THEN 0 ELSE SkipWs(t, Min(closers(Max(keys))) + 1)

\* re.search of the list pattern: the leftmost start that matches
ListMatch(t) ==
  LET starts == {i \in 1..Len(t) : ListEndFrom(t, i) # 0}
  IN IF starts = {} THEN NoMatch ELSE Match(Min(starts), ListEndFrom(t, Min(starts)))

\* where a match of \{[^{}]*"tool_name"[^{}]*\} that starts at t[i] ends: the
\* next brace after t[i] has to be a } and "tool_name" has to come before it
DictEndFrom(t, i) ==
  LET braces == {b \in (i + 1)..Len(t) : t[b] \in {"{", "}"}}
  IN IF t[i] # "{" \/ braces = {} THEN 0
     ELSE IF t[Min(braces)] = "}" /\ \E k \in (i + 1)..(Min(braces) - 1) : t[k] = Key
     THEN Min(braces)
     ELSE 0

\* re.search of the object pattern
DictMatch(t) ==
  LET starts == {i \in 1..Len(t) : DictEndFrom(t, i) # 0}
  IN IF starts = {} THEN NoMatch ELSE Match(Min(starts), DictEndFrom(t, Min(starts)))

\* what the parser returns; raised is true when an exception leaves it
Parsed(plan, calls) == [plan |-> plan, tool_calls |-> calls, raised |-> FALSE]
ParserRaised == [plan |-> Absent, tool_calls |-> << >>, raised |-> TRUE]

\* nothing has been parsed
NoParse == Parsed(Absent, << >>)

\* plan_text if plan_text else None, for the text before position n
PlanBefore(t, n) ==
  LET plan == Join(Trim(SubSeq(t, 1, n - 1)))
  IN IF plan = "" THEN Null ELSE plan

\* mutant: a span that json.loads rejects is not caught
SpanCallsUncaught(t, m, isList) ==
  LET p == JsonLoads(SubSeq(t, m.start, m.stop))
  IN IF ~p.ok THEN [raised |-> TRUE, calls |-> << >>]
     ELSE IF isList
     THEN [raised |-> FALSE,
           calls |-> IF IsToolCallList(p.value) THEN ItemsFrom(p.value, 2) ELSE << >>]
     ELSE [raised |-> FALSE, calls |-> IF IsToolCall(p.value) THEN <<p.value>> ELSE << >>]

\* agent.py 230-243: the calls read from the matched span; json.loads is
\* inside try/except JSONDecodeError
SpanCalls(t, m, isList) ==
  LET p == JsonLoads(SubSeq(t, m.start, m.stop))
  IN IF ~p.ok THEN [raised |-> FALSE, calls |-> << >>]
     ELSE IF isList
     THEN [raised |-> FALSE,
           calls |-> IF IsToolCallList(p.value) THEN ItemsFrom(p.value, 2) ELSE << >>]
     ELSE [raised |-> FALSE, calls |-> IF IsToolCall(p.value) THEN <<p.value>> ELSE << >>]

\* agent.py 226-253: the search in the text, the list pattern first
ExtractEmbedded(t) ==
  LET list_match == ListMatch(t)
      dict_match == DictMatch(t)
  IN IF list_match.found
     THEN LET c == SpanCalls(t, list_match, TRUE)
          IN IF c.raised THEN ParserRaised
             ELSE Parsed(PlanBefore(t, list_match.start), c.calls)
     ELSE IF dict_match.found
     THEN LET c == SpanCalls(t, dict_match, FALSE)
          IN IF c.raised THEN ParserRaised
             ELSE Parsed(PlanBefore(t, dict_match.start), c.calls)
     ELSE Parsed(PlanBefore(t, Len(t) + 1), << >>)

\* mutant: the text is not tried as JSON as a whole
ExtractPlanAndToolCallsNoWhole(t) == ExtractEmbedded(t)

\* DroneAgent._extract_plan_and_tool_calls
ExtractPlanAndToolCalls(t) ==
  LET whole == JsonLoads(t)
  IN IF whole.ok /\ IsToolCall(whole.value) THEN Parsed(Null, <<whole.value>>)
     ELSE IF whole.ok /\ IsToolCallList(whole.value)
     THEN Parsed(Null, ItemsFrom(whole.value, 2))
     ELSE ExtractEmbedded(t)

\* ------------------------------------------- texts the model may answer
\* objects that are tool calls: arguments empty, flat, nested, with the keys
\* in either order, and a decline
CallTakeoff == <<"{", Key, ":", "\"takeoff\"", ",", "\"arguments\"", ":", "{", "}", "}">>
CallArm ==
  <<"{", Key, ":", "\"arm\"", ",", "\"arguments\"", ":", "{", "\"armed\"", ":", "true", "}",
    "}">>
CallArmArgsFirst ==
  <<"{", "\"arguments\"", ":", "{", "\"armed\"", ":", "true", "}", ",", Key, ":", "\"arm\"",
    "}">>
CallPath ==
  <<"{", Key, ":", "\"move_on_path\"", ",", "\"arguments\"", ":", "{", "\"path\"", ":",
    "[", "[", "1", ",", "1", ",", "1", "]", "]", "}", "}">>
CallPathArgsFirst ==
  <<"{", "\"arguments\"", ":", "{", "\"path\"", ":", "[", "[", "1", ",", "1", ",", "1", "]",
    "]", "}", ",", Key, ":", "\"move_on_path\"", "}">>
CallPathObjects ==
  <<"{", Key, ":", "\"move_on_path\"", ",", "\"arguments\"", ":", "{", "\"path\"", ":",
    "[", "{", "\"x\"", ":", "1", "}", "]", "}", "}">>
CallHover == <<"{", Key, ":", "\"hover\"", "}">>
CallDecline == <<"{", Key, ":", "null", ",", "\"reason\"", ":", "\"done\"", "}">>

ValidCallObjects ==
  {CallTakeoff, CallArm, CallArmArgsFirst, CallPath, CallPathArgsFirst, CallPathObjects,
   CallHover, CallDecline}

\* valid JSON objects that are no tool call
NoToolName == <<"{", "\"name\"", ":", "\"hover\"", "}">>
ToolNameAsValue == <<"{", "\"name\"", ":", Key, "}">>
OtherObjects == {NoToolName, ToolNameAsValue}

\* spans that look like a tool call and are not JSON
TrailingComma == <<"{", Key, ":", "\"land\"", ",", "}">>
MissingColon == <<"{", Key, "\"land\"", "}">>
BrokenObjects == {TrailingComma, MissingColon}

\* objects put into arrays
ArrayObjects == {CallTakeoff, CallArmArgsFirst, CallPathArgsFirst, CallPathObjects, CallHover,
                 NoToolName, TrailingComma}

Prefixes == {<< >>, <<"plan">>, <<" ", "plan", " ", "plan", "\n">>}
Suffixes == {<< >>, <<"\n", "plan">>}

\* how a text is put together: free text, then nothing, one object or an
\* array of objects, then free text; spaced puts white space inside the array
TextParts ==
  [prefix : Prefixes, suffix : Suffixes, spaced : {FALSE},
   kind : {"none"}, items : {<< >>}]
  \cup [prefix : Prefixes, suffix : Suffixes, spaced : {FALSE},
        kind : {"object"}, items : {<<o>> : o \in ValidCallObjects \cup OtherObjects
                                                  \cup BrokenObjects}]
  \cup [prefix : Prefixes, suffix : Suffixes, spaced : BOOLEAN,
        kind : {"array"}, items : SeqsUpTo(ArrayObjects, MaxItems)]

RECURSIVE Listed(_, _)
Listed(items, sep) ==
  IF items = << >> THEN << >>
  ELSE IF Len(items) = 1 THEN items[1]
  ELSE items[1] \o sep \o Listed(Tail(items), sep)

\* the text of the parts
TextOf(parts) ==
  parts.prefix
  \o (CASE parts.kind = "none" -> << >>
        [] parts.kind = "object" -> parts.items[1]
        [] parts.kind = "array" ->
             IF parts.spaced
             THEN <<"[", " ">> \o Listed(parts.items, <<",", "\n">>) \o <<" ", "]">>
             ELSE <<"[">> \o Listed(parts.items, <<",">>) \o <<"]">>)
  \o parts.suffix

\* ------------------------------------------------------------------ state
VARIABLES
  pc,                  \* where the agent is: idle, build, generate, exec, step_done,
                       \* chat_loop, chat_final, done, raised
  caller,              \* who called step: "none", "direct" or "chat"
  tools,               \* ToolRegistry.tools
  regCall,             \* the last direct call of a ToolRegistry method and how it ended
  regLatest,           \* per name, the entry most recently passed to register
  regFirst,            \* names in the order of their first register call
  regOrder,            \* names in the order of their latest register call
  response_text,       \* the text handed to _extract_plan_and_tool_calls
  parsed,              \* what _extract_plan_and_tool_calls returned for it
  text_parts,          \* how response_text was put together
  script,              \* per step of a conversation, the model answer and the call that raises
  firstHistory,        \* the history the first chat call returned
  chatNo,              \* how many chat calls have been made
  configured,          \* logger.py _configured
  config_lock,         \* logger.py _config_lock: the thread that holds it, 0 if free
  handlers,            \* handlers of the root logger, in the order they were added
  root_level,          \* level of the root logger
  logPc,               \* per thread, its position in setup_logging
  logCall,             \* per thread, the call it is making
  logRet,              \* per thread, how its last call ended
  logCalls,            \* per thread, the number of calls it has made
  chat_history,        \* GradioUI.chat_history
  llm_outputs,         \* GradioUI.llm_outputs
  ui_tool_calls,       \* GradioUI.tool_calls
  ui_lock,             \* GradioUI.lock: the thread that holds it, 0 if free
  reqPc,               \* per chat request, its position in chat_fn
  reqKind,             \* per chat request, what the agent callback does for it
  reqSeen,             \* per chat request, the chat history chat_fn returned
  uiPc,                \* per thread, the GradioUI method it is in
  uiGot,               \* the value the last getter returned
  llmAdded,            \* add_llm_output calls so far
  toolAdded,           \* add_tool_call calls so far
  connPc,              \* position of ConnectionManager.connect
  max_retries,         \* ConnectionConfig.max_retries
  attempt,             \* iterations of the loop of connect begun so far
  last_err,            \* connect local
  cause,               \* the error that the exception of connect carries
  api_control,         \* whether enableApiControl(True) has succeeded
  attemptLog,          \* how each connection attempt ended
  ui_callback,         \* whether an observer is attached
  uiLog,               \* notifications the observer has received
  uiStatus,            \* the status the observer was last given
  max_steps,           \* chat argument
  step_num,            \* chat loop variable
  history,             \* chat local
  current_input,       \* chat local
  user_input,          \* step argument
  include_observation, \* step argument
  additional_images,   \* step argument
  messages,            \* step local: the request being built
  plan_text,           \* step local
  tool_calls,          \* step local
  idx,                 \* position of the execution loop in tool_calls
  results,             \* step local
  outcome,             \* the value step returned
  exc,                 \* the exception that left step, NoMsg if none
  invoked,             \* bindings called in the current step
  modelCalls,          \* number of mllm.generate calls since the agent was built
  bindingCalls         \* number of binding calls since the agent was built

registryVars == <<tools, regCall, regLatest, regFirst, regOrder>>
parserVars == <<response_text, parsed, text_parts>>
replayVars == <<script, firstHistory, chatNo>>
loggerVars == <<configured, config_lock, handlers, root_level, logPc, logCall, logRet, logCalls>>
gradioVars == <<chat_history, llm_outputs, ui_tool_calls, ui_lock, reqPc, reqKind, reqSeen,
                uiPc, uiGot, llmAdded, toolAdded>>
connVars == <<connPc, max_retries, attempt, last_err, cause, api_control, attemptLog>>
otherVars == <<replayVars, loggerVars, gradioVars, connVars>>
chatVars == <<max_steps, step_num, history, current_input>>
argVars == <<user_input, include_observation, additional_images>>
execVars == <<plan_text, tool_calls, idx, results>>
agentVars == <<pc, caller, registryVars, parserVars, ui_callback, uiLog, uiStatus, chatVars, argVars,
               messages, execVars, outcome, exc, invoked, modelCalls, bindingCalls>>
vars == <<pc, caller, registryVars, parserVars, otherVars, ui_callback, uiLog, uiStatus, chatVars, argVars, messages, execVars,
          outcome, exc, invoked, modelCalls, bindingCalls>>

Notify(log, ev) == IF ui_callback THEN Append(log, ev) ELSE log

\* no ToolRegistry method has been called from outside the agent yet
NoRegCall ==
  [op |-> "none", name |-> "", arguments |-> ArgsAbsent, v |-> Ret(TRUE, NoMsg),
   o |-> Returns(ResAbsent), summary |-> << >>]

NoEntry == Entry("", "", << >>, {}, "")

\* names that are registered again, or for the first time, after construction
RegisterNames == {"move_to_position", "stub_tool"}

\* the agent and its registry right after DroneAgent.__init__
InitAgent ==
  /\ pc = "idle"
  /\ caller = "none"
  /\ tools = RegisteredTools
  /\ regCall = NoRegCall
  /\ regLatest = [n \in RegisterNames |-> NoEntry]
  /\ regFirst = [i \in 1..Len(RegisteredTools) |-> RegisteredTools[i].name]
  /\ regOrder = [i \in 1..Len(RegisteredTools) |-> RegisteredTools[i].name]
  /\ ui_callback \in BOOLEAN
  /\ uiLog = << >>
  /\ uiStatus = Null
  /\ max_steps = 0
  /\ step_num = 0
  /\ history = << >>
  /\ current_input = "none"
  /\ user_input = "none"
  /\ include_observation = FALSE
  /\ additional_images = << >>
  /\ messages = << >>
  /\ plan_text = Null
  /\ tool_calls = << >>
  /\ idx = 0
  /\ results = << >>
  /\ outcome = NoOutcome
  /\ exc = NoMsg
  /\ invoked = << >>
  /\ modelCalls = 0
  /\ bindingCalls = 0

NoParts == [prefix |-> << >>, suffix |-> << >>, spaced |-> FALSE, kind |-> "none",
            items |-> << >>]

\* no conversation is scripted and none has returned
InitReplay ==
  /\ script = << >>
  /\ firstHistory = << >>
  /\ chatNo = 0

LogThreads == 1..MaxThreads

\* no call of the logging module is under way
NoLogCall == [fn |-> "none", level |-> "", dirOk |-> FALSE]

\* logger.py 9-10 and the root logger of a new interpreter
InitLogging ==
  /\ configured = FALSE
  /\ config_lock = 0
  /\ handlers = << >>
  /\ root_level = "WARNING"
  /\ logPc = [t \in LogThreads |-> "out"]
  /\ logCall = [t \in LogThreads |-> NoLogCall]
  /\ logRet = [t \in LogThreads |-> "none"]
  /\ logCalls = [t \in LogThreads |-> 0]

Requests == 1..MaxRequests

\* a reply of chat_history: the request whose handling wrote it and what it
\* is (the final report of chat, the response or the error text of the
\* callback); the empty string of add_user_message is NoReply
Reply(r, kind) == [from |-> r, kind |-> kind]
NoReply == Reply(0, "")

\* a (user message, assistant reply) pair; the message is named by its request
Pair(r, reply) == [user |-> r, reply |-> reply]

\* no getter has returned since the last change
NoResult == [op |-> "none", value |-> << >>]

\* GradioUI.__init__ (gradio_app.py 20-26) and no request under way
InitGradio ==
  /\ chat_history = << >>
  /\ llm_outputs = << >>
  /\ ui_tool_calls = << >>
  /\ ui_lock = 0
  /\ reqPc = [r \in Requests |-> "new"]
  /\ reqKind = [r \in Requests |-> "none"]
  /\ reqSeen = [r \in Requests |-> << >>]
  /\ uiPc = [t \in 1..MaxThreads |-> "idle"]
  /\ uiGot = NoResult
  /\ llmAdded = 0
  /\ toolAdded = 0

\* an error of the simulator client, told apart by the attempt it happened in
ConnError(kind, at) == [kind |-> kind, at |-> at]
NoError == ConnError("none", 0)

\* connection.py 28-30: a new ConnectionManager
InitConnection ==
  /\ connPc = "idle"
  /\ max_retries = 0
  /\ attempt = 0
  /\ last_err = NoError
  /\ cause = NoError
  /\ api_control = FALSE
  /\ attemptLog = << >>

InitOther == InitReplay /\ InitLogging /\ InitGradio /\ InitConnection

Init ==
  /\ InitAgent
  /\ response_text = << >>
  /\ parsed = NoParse
  /\ text_parts = NoParts
  /\ InitOther

\* the agent before a step whose model answer is one of the texts
InitParser ==
  /\ InitAgent
  /\ text_parts \in TextParts
  /\ response_text = TextOf(text_parts)
  /\ parsed = NoParse
  /\ InitOther

\* ------------------------------------------------- ToolRegistry, called directly
\* keyword names and values of the arguments handed to the registry
RegKeys == {"x", "y", "z", "speed"}

\* the dicts that give a value to some of x, y, z; dicts with a null value
\* and with a key no built-in schema knows; and None in place of a dict
RegArguments ==
  {ArgsMap({<<k, "1">> : k \in K}) : K \in SUBSET {"x", "y", "z"}}
  \cup {ArgsMap({<<"x", "1">>, <<"y", Null>>, <<"speed", "1">>}),
        ArgsMap({<<"x", "1">>, <<"y", "1">>, <<"z", "1">>, <<"speed", "1">>}),
        ArgsMap({<<"x", Null>>, <<"y", Null>>, <<"z", Null>>}),
        ArgsMap({<<"x", Null>>, <<"z", "1">>}),
        ArgsMap({<<"speed", Null>>}),
        ArgsNull}

CallNames == {"move_to_position", "takeoff", "fly_home", "stub_tool"}

\* required lists of the entries registered after construction
StubRequired == {<< >>, <<"z", "x">>}

\* register(name, description, parameters, func) with a stand-in binding
\* that takes any keyword
RegisterOp ==
  /\ pc = "idle"
  /\ \E name \in RegisterNames, required \in StubRequired, func \in StubFuncs :
       LET entry == Entry(name, "stand-in", required, RegKeys, func)
       IN /\ tools' = Register(tools, entry)
          /\ regLatest' = [regLatest EXCEPT ![name] = entry]
          /\ regFirst' = IF \E i \in 1..Len(regFirst) : regFirst[i] = name THEN regFirst
                         ELSE Append(regFirst, name)
          /\ regOrder' = Append(SelectSeq(regOrder, LAMBDA n : n # name), name)
          /\ regCall' = [NoRegCall EXCEPT !.op = "register", !.name = name]
  /\ UNCHANGED <<pc, caller, parserVars, otherVars, ui_callback, uiLog, uiStatus, chatVars, argVars,
                 messages, execVars, outcome, exc, invoked, modelCalls, bindingCalls>>

\* validate_arguments(name, arguments)
ValidateOp ==
  /\ pc = "idle"
  /\ \E name \in CallNames, arguments \in RegArguments :
       regCall' = [NoRegCall EXCEPT !.op = "validate", !.name = name,
                                    !.arguments = arguments,
                                    !.v = ValidateArguments(tools, name, arguments)]
  /\ UNCHANGED <<pc, caller, tools, regLatest, regFirst, regOrder, parserVars, otherVars, ui_callback, uiLog, uiStatus,
                 chatVars, argVars, messages, execVars, outcome, exc, invoked, modelCalls,
                 bindingCalls>>

\* call_tool(name, arguments)
CallOp ==
  /\ pc = "idle"
  /\ \E name \in CallNames, arguments \in RegArguments :
       \E o \in CallTool(tools, name, arguments) :
          regCall' = [NoRegCall EXCEPT !.op = "call", !.name = name,
                                       !.arguments = arguments, !.o = o]
  /\ UNCHANGED <<pc, caller, tools, regLatest, regFirst, regOrder, parserVars, otherVars, ui_callback, uiLog, uiStatus,
                 chatVars, argVars, messages, execVars, outcome, exc, invoked, modelCalls,
                 bindingCalls>>

\* list_tools_summary()
SummaryOp ==
  /\ pc = "idle"
  /\ regCall' = [NoRegCall EXCEPT !.op = "summary", !.summary = ListToolsSummary(tools)]
  /\ UNCHANGED <<pc, caller, tools, regLatest, regFirst, regOrder, parserVars, otherVars, ui_callback,
                 uiLog, uiStatus, chatVars, argVars, messages, execVars, outcome, exc, invoked,
                 modelCalls, bindingCalls>>

NextRegistry == RegisterOp \/ ValidateOp \/ CallOp \/ SummaryOp

\* the registry used on its own: entries are registered over the built-in
\* ones, arguments are validated and tools are called, in any order
SpecRegistry == Init /\ [][NextRegistry]_vars

\* ------------------------------------------------------- DroneAgent.step
\* a caller other than chat calls step (scripts/test_agent.py, run_web_ui.py)
StepCall ==
  /\ pc = "idle"
  /\ \E obs \in BOOLEAN, imgs \in {<< >>, <<ResImage("BACK_CENTER")>>} :
       /\ include_observation' = obs
       /\ additional_images' = imgs
  /\ user_input' = "user"
  /\ caller' = "direct"
  /\ pc' = "build"
  /\ UNCHANGED <<registryVars, parserVars, otherVars, ui_callback, uiLog, uiStatus, chatVars, messages, execVars, outcome, exc,
                 invoked, modelCalls, bindingCalls>>

\* agent.py 109-157: status message, or the warning when the query fails
StatusMessage(statusOk) == IF statusOk THEN "status" ELSE "status_warning"

\* agent.py 159-204: one observation message, or a warning
ObservationMessages(obsOk) == IF obsOk THEN <<"observation">> ELSE <<"observation_warning">>

\* agent.py 283-292
ImageMessages(imgs) == [i \in 1..Len(imgs) |-> "image:" \o imgs[i].camera]

\* mutant: a failed status query ends the step with its exception
BuildRequestStatusAborts ==
  /\ pc = "build"
  /\ \E statusOk \in BOOLEAN, obsOk \in BOOLEAN :
       /\ include_observation \/ obsOk
       /\ messages' = IF statusOk
                      THEN <<"system", StatusMessage(statusOk), "user:" \o user_input>>
                             \o (IF include_observation THEN ObservationMessages(obsOk) ELSE << >>)
                             \o ImageMessages(additional_images)
                      ELSE <<"system">>
       /\ uiStatus' = IF statusOk /\ ui_callback THEN "status" ELSE uiStatus
       /\ pc' = IF statusOk THEN "generate" ELSE "raised"
  /\ UNCHANGED <<caller, registryVars, parserVars, otherVars, ui_callback, uiLog, chatVars, argVars, execVars, outcome, exc,
                 invoked, modelCalls, bindingCalls>>

\* agent.py 267-292: the request is assembled; the status query and the image
\* capture each succeed or fail. update_status is called inside the try of
\* _get_status_message, so an observer that raises there gives the same
\* warning message as a failed status query (statusOk false)
BuildRequest ==
  /\ pc = "build"
  /\ \E statusOk \in BOOLEAN, obsOk \in BOOLEAN :
       /\ include_observation \/ obsOk
       /\ messages' = <<"system", StatusMessage(statusOk), "user:" \o user_input>>
                        \o (IF include_observation THEN ObservationMessages(obsOk) ELSE << >>)
                        \o ImageMessages(additional_images)
       /\ uiStatus' = IF statusOk /\ ui_callback THEN "status" ELSE uiStatus
  /\ pc' = "generate"
  /\ UNCHANGED <<caller, registryVars, parserVars, otherVars, ui_callback, uiLog, chatVars, argVars, execVars, outcome, exc,
                 invoked, modelCalls, bindingCalls>>

\* agent.py 295-297 when the model collaborator raises: nothing catches it
GenerateRaises ==
  /\ pc = "generate"
  /\ modelCalls' = modelCalls + 1
  /\ exc' = <<"model error">>
  /\ pc' = "raised"
  /\ UNCHANGED <<caller, registryVars, parserVars, otherVars, ui_callback, uiLog, uiStatus, chatVars, argVars, messages, execVars,
                 outcome, invoked, bindingCalls>>

\* mutant: an answer without a tool call makes step ask the model once more
GenerateAsksAgain(R) ==
  /\ pc = "generate"
  /\ \E r \in R :
       LET g == Gate(tools, r.plan, r.calls, RawText)
       IN /\ plan_text' = r.plan
          /\ tool_calls' = r.calls
          /\ pc' = CASE g.kind = "outcome" -> "step_done"
                     [] g.kind = "raised" -> "raised"
                     [] OTHER -> "exec"
          /\ outcome' = g.outcome
          /\ exc' = IF g.kind = "raised" THEN <<"TypeError">> ELSE NoMsg
          /\ idx' = IF g.kind = "pass" THEN 1 ELSE 0
          /\ modelCalls' = IF r.calls = << >> THEN modelCalls + 2 ELSE modelCalls + 1
  /\ uiLog' = Notify(uiLog, "add_llm_output")
  /\ results' = << >>
  /\ invoked' = << >>
  /\ messages' = << >>
  /\ user_input' = "none"
  /\ include_observation' = FALSE
  /\ additional_images' = << >>
  /\ UNCHANGED <<caller, registryVars, parserVars, otherVars, ui_callback, uiStatus, chatVars, bindingCalls>>

\* agent.py 295-357: the model answers, the answer is parsed, reported to the
\* observer and taken through the terminals and the validation gate; the
\* request and the arguments of step are not used after this point
Generate(R) ==
  /\ pc = "generate"
  /\ \E r \in R :
       LET g == Gate(tools, r.plan, r.calls, RawText)
       IN /\ plan_text' = r.plan
          /\ tool_calls' = r.calls
          /\ pc' = CASE g.kind = "outcome" -> "step_done"
                     [] g.kind = "raised" -> "raised"
                     [] OTHER -> "exec"
          /\ outcome' = g.outcome
          /\ exc' = IF g.kind = "raised" THEN <<"TypeError">> ELSE NoMsg
          /\ idx' = IF g.kind = "pass" THEN 1 ELSE 0
  /\ modelCalls' = modelCalls + 1
  /\ uiLog' = Notify(uiLog, "add_llm_output")
  /\ results' = << >>
  /\ invoked' = << >>
  /\ messages' = << >>
  /\ user_input' = "none"
  /\ include_observation' = FALSE
  /\ additional_images' = << >>
  /\ UNCHANGED <<caller, registryVars, parserVars, otherVars, ui_callback, uiStatus, chatVars, bindingCalls>>

\* mutant: a raising call is skipped and the loop goes on with the next call
ExecStepKeepGoing(plan, calls, i, done, o) ==
  LET name == calls[i].tool_name
      arguments == GetArguments(calls[i])
      d == IF o.raised THEN done
           ELSE Append(done, ResultDict(plan, name, arguments, o.result))
  IN IF i = Len(calls)
     THEN [pc |-> "step_done", idx |-> i, results |-> d,
           outcome |-> IF o.raised THEN ExecutionFailure(plan, calls, done, name, o.msg)
                       ELSE SuccessOutcome(plan, calls, d)]
     ELSE [pc |-> "exec", idx |-> i + 1, results |-> d, outcome |-> NoOutcome]

\* mutant: the outcome of the failing call is appended to results as well
ExecStepAppendsFailure(plan, calls, i, done, o) ==
  LET name == calls[i].tool_name
      arguments == GetArguments(calls[i])
  IN IF ~o.raised
     THEN LET d == Append(done, ResultDict(plan, name, arguments, o.result))
          IN IF i = Len(calls)
             THEN [pc |-> "step_done", idx |-> i, results |-> d,
                   outcome |-> SuccessOutcome(plan, calls, d)]
             ELSE [pc |-> "exec", idx |-> i + 1, results |-> d, outcome |-> NoOutcome]
     ELSE LET d == Append(done, FailedResultDict(plan, name, arguments, o.msg))
          IN [pc |-> "step_done", idx |-> i, results |-> d,
              outcome |-> ExecutionFailure(plan, calls, d, name, o.msg)]

\* agent.py 364-411: what one iteration of the execution loop does with the
\* way call i ended (o), given the results of the calls before it
ExecStep(plan, calls, i, done, o) ==
  LET name == calls[i].tool_name
      arguments == GetArguments(calls[i])
  IN IF ~o.raised
     THEN LET d == Append(done, ResultDict(plan, name, arguments, o.result))
          IN IF i = Len(calls)
             THEN [pc |-> "step_done", idx |-> i, results |-> d,
                   outcome |-> SuccessOutcome(plan, calls, d)]
             ELSE [pc |-> "exec", idx |-> i + 1, results |-> d, outcome |-> NoOutcome]
     ELSE [pc |-> "step_done", idx |-> i, results |-> done,
           outcome |-> ExecutionFailure(plan, calls, done, name, o.msg)]

\* agent.py 361-411: one iteration of the execution loop, and the return that
\* follows the last one
ExecCall ==
  /\ pc = "exec"
  /\ LET tc == tool_calls[idx]
     IN \E o \in CallTool(tools, tc.tool_name, GetArguments(tc)) :
          LET e == ExecStep(plan_text, tool_calls, idx, results, o)
          IN /\ invoked' = IF o.invoked
                           THEN Append(invoked, [idx |-> idx, tool_name |-> tc.tool_name,
                                                 raised |-> o.raised, result |-> o.result])
                           ELSE invoked
             /\ bindingCalls' = IF o.invoked THEN bindingCalls + 1 ELSE bindingCalls
             /\ uiLog' = Notify(uiLog, IF o.raised THEN "add_tool_call:False"
                                       ELSE "add_tool_call:True")
             /\ pc' = e.pc
             /\ idx' = e.idx
             /\ results' = e.results
             /\ outcome' = e.outcome
  /\ UNCHANGED <<caller, registryVars, parserVars, otherVars, ui_callback, uiStatus, chatVars, argVars, messages, plan_text,
                 tool_calls, exc, modelCalls>>

StepNext(R) == StepCall \/ BuildRequest \/ GenerateRaises \/ Generate(R) \/ ExecCall

NextStep == StepNext(StepResponses)

\* one direct call of step, the model answering with lists of up to MaxCalls calls
SpecStep == Init /\ [][NextStep]_vars

\* ------------------------------------------ DroneAgent.step on a text
\* agent.py 303: the answer of the model is parsed
ExtractOp ==
  /\ pc = "idle"
  /\ parsed' = ExtractPlanAndToolCalls(response_text)
  /\ pc' = IF parsed'.raised THEN "raised" ELSE "parsed"
  /\ exc' = IF parsed'.raised THEN <<"JSONDecodeError">> ELSE NoMsg
  /\ modelCalls' = modelCalls + 1
  /\ caller' = "direct"
  /\ UNCHANGED <<registryVars, response_text, text_parts, otherVars, ui_callback, uiLog, uiStatus,
                 chatVars, argVars, messages, execVars, outcome, invoked, bindingCalls>>

\* agent.py 305-322: the parser gave no call; the observer is told and step
\* returns the no-call outcome
NoCallStep ==
  /\ pc = "parsed"
  /\ parsed.tool_calls = << >>
  /\ outcome' = Gate(tools, parsed.plan, << >>, Join(response_text)).outcome
  /\ plan_text' = parsed.plan
  /\ uiLog' = Notify(uiLog, "add_llm_output")
  /\ pc' = "step_done"
  /\ UNCHANGED <<caller, registryVars, parserVars, otherVars, ui_callback, uiStatus, chatVars, argVars,
                 messages, tool_calls, idx, results, exc, invoked, modelCalls, bindingCalls>>

NextParser == ExtractOp \/ NoCallStep

\* the parser applied to every text, and the step that follows an empty list
SpecParser == InitParser /\ [][NextParser]_vars

\* ------------------------------------- DroneAgent.step, observer failing
\* the exception of an observer method
ObserverError == <<"observer error">>

\* agent.py 305-313 when add_llm_output raises: the call is in no try, the
\* exception leaves step
LlmOutputNotifyRaises(R) ==
  /\ pc = "generate"
  /\ ui_callback
  /\ \E r \in R :
       /\ plan_text' = r.plan
       /\ tool_calls' = r.calls
  /\ modelCalls' = modelCalls + 1
  /\ exc' = ObserverError
  /\ pc' = "raised"
  /\ outcome' = NoOutcome
  /\ idx' = 0
  /\ results' = << >>
  /\ invoked' = << >>
  /\ messages' = << >>
  /\ user_input' = "none"
  /\ include_observation' = FALSE
  /\ additional_images' = << >>
  /\ UNCHANGED <<caller, registryVars, parserVars, otherVars, ui_callback, uiLog, uiStatus, chatVars,
                 bindingCalls>>

\* agent.py 364-399 when add_tool_call raises. After a call that returned
\* (line 375) the result is already in results and the exception is caught
\* by the except of line 377, which reports the call as failed; the second
\* add_tool_call (line 389) is in no try. again tells whether it raises too
ExecStepNotifyRaises(plan, calls, i, done, o, again) ==
  LET name == calls[i].tool_name
      arguments == GetArguments(calls[i])
      d == IF o.raised THEN done
           ELSE Append(done, ResultDict(plan, name, arguments, o.result))
  IN IF o.raised \/ again
     THEN [pc |-> "raised", idx |-> i, results |-> d, outcome |-> NoOutcome,
           exc |-> ObserverError]
     ELSE [pc |-> "step_done", idx |-> i, results |-> d,
           outcome |-> ExecutionFailure(plan, calls, d, name, ObserverError),
           exc |-> NoMsg]

ToolCallNotifyRaises ==
  /\ pc = "exec"
  /\ ui_callback
  /\ LET tc == tool_calls[idx]
     IN \E o \in CallTool(tools, tc.tool_name, GetArguments(tc)), again \in BOOLEAN :
          LET e == ExecStepNotifyRaises(plan_text, tool_calls, idx, results, o, again)
          IN /\ invoked' = IF o.invoked
                           THEN Append(invoked, [idx |-> idx, tool_name |-> tc.tool_name,
                                                 raised |-> o.raised, result |-> o.result])
                           ELSE invoked
             /\ bindingCalls' = IF o.invoked THEN bindingCalls + 1 ELSE bindingCalls
             /\ uiLog' = IF e.pc = "step_done" THEN Append(uiLog, "add_tool_call:False")
                         ELSE uiLog
             /\ pc' = e.pc
             /\ idx' = e.idx
             /\ results' = e.results
             /\ outcome' = e.outcome
             /\ exc' = e.exc
  /\ UNCHANGED <<caller, registryVars, parserVars, otherVars, ui_callback, uiStatus, chatVars, argVars,
                 messages, plan_text, tool_calls, modelCalls>>

NextObserver ==
  \/ StepNext(ChatResponses)
  \/ LlmOutputNotifyRaises(ChatResponses)
  \/ ToolCallNotifyRaises

\* one direct call of step, each notification of an attached observer
\* returning or raising
SpecObserver == Init /\ [][NextObserver]_vars

\* ------------------------------------------------------- DroneAgent.chat
Last(q) == q[Len(q)]

\* Python truth of result.get("success")
Truthy(success) == success = PyTrue

\* isinstance(result, dict) and "image_url" in result
HasImage(o) == o.result.kind = "image"

\* mutant: the images of every earlier step are carried forward
PrevImagesWholeHistory(n, h) ==
  LET RECURSIVE Collect(_)
      Collect(k) ==
        IF k = 0 THEN << >>
        ELSE Collect(k - 1) \o
             (IF h[k].tool_name = "get_camera_image" /\ HasImage(h[k]) THEN <<h[k].result>>
              ELSE IF h[k].tool_name = "__batch__"
              THEN LET keep == SelectSeq(h[k].results.list,
                                 LAMBDA item : item.tool_name = "get_camera_image"
                                               /\ HasImage(item))
                   IN [i \in 1..Len(keep) |-> keep[i].result]
              ELSE << >>)
  IN IF n > 0 THEN Collect(Len(h)) ELSE << >>

\* agent.py 429-446: images of the previous step that the next step is given
PrevImages(n, h) ==
  IF n > 0 /\ h # << >>
  THEN LET prev == Last(h)
       IN IF prev.tool_name = "get_camera_image"
          THEN IF Truthy(prev.success) /\ HasImage(prev) THEN <<prev.result>> ELSE << >>
          ELSE IF prev.tool_name = "__batch__"
          THEN LET keep == SelectSeq(prev.results.list,
                             LAMBDA item : item.tool_name = "get_camera_image"
                                           /\ Truthy(item.success) /\ HasImage(item))
               IN [i \in 1..Len(keep) |-> keep[i].result]
          ELSE << >>
  ELSE << >>

\* agent.py 460-477: the prompt of the next step
Continuation(o) ==
  IF o.tool_name = "get_camera_image" /\ HasImage(o) THEN "image result prompt"
  ELSE IF o.tool_name = "__batch__" THEN "batch result prompt"
  ELSE "tool result prompt"

\* mutant: the loop runs one step more than max_steps
LoopContinuesOffByOne(n, m) == n <= m

\* agent.py 427: range(max_steps) has another step
LoopContinues(n, m) == n < m

\* mutant: a failed tool call does not end the loop
BreaksOnlyWithoutTool(o) == o.tool_name = Null

\* agent.py 452-457: the two breaks of the loop
Breaks(o) == o.tool_name = Null \/ ~Truthy(o.success)

\* agent.py 424-425
ChatCall ==
  /\ pc = "idle"
  /\ \E n \in 0..MaxSteps : max_steps' = n
  /\ history' = << >>
  /\ current_input' = "user"
  /\ step_num' = 0
  /\ caller' = "chat"
  /\ pc' = "chat_loop"
  /\ UNCHANGED <<registryVars, parserVars, otherVars, ui_callback, uiLog, uiStatus, argVars, messages, execVars, outcome, exc,
                 invoked, modelCalls, bindingCalls>>

\* agent.py 427-448: the head of the loop; calls step or leaves the loop
ChatLoop ==
  /\ pc = "chat_loop"
  /\ IF LoopContinues(step_num, max_steps)
     THEN /\ additional_images' = PrevImages(step_num, history)
          /\ include_observation' = (step_num = 0)
          /\ user_input' = current_input
          /\ pc' = "build"
     ELSE /\ pc' = "chat_final"
          /\ UNCHANGED argVars
  /\ UNCHANGED <<caller, registryVars, parserVars, otherVars, ui_callback, uiLog, uiStatus, chatVars, messages, execVars, outcome,
                 exc, invoked, modelCalls, bindingCalls>>

\* agent.py 449-477: step has returned; the outcome is recorded and the loop
\* breaks or prepares the next step
ChatAfterStep ==
  /\ pc = "step_done"
  /\ caller = "chat"
  /\ history' = Append(history, outcome)
  /\ IF Breaks(outcome)
     THEN /\ pc' = "chat_final"
          /\ UNCHANGED <<step_num, current_input>>
     ELSE /\ current_input' = Continuation(outcome)
          /\ step_num' = step_num + 1
          /\ pc' = "chat_loop"
  /\ plan_text' = Null
  /\ tool_calls' = << >>
  /\ idx' = 0
  /\ results' = << >>
  /\ outcome' = NoOutcome
  /\ invoked' = << >>
  /\ UNCHANGED <<caller, registryVars, parserVars, otherVars, ui_callback, uiLog, uiStatus, max_steps, argVars, messages, exc,
                 modelCalls, bindingCalls>>

\* agent.py 480-484: the final report to the observer
FinalResponse(h) ==
  IF ~Truthy(Last(h).success) THEN "add_assistant_response:last step failed"
  ELSE "add_assistant_response:done"

\* agent.py 479-486
ChatReturn ==
  /\ pc = "chat_final"
  /\ uiLog' = IF history # << >> THEN Notify(uiLog, FinalResponse(history)) ELSE uiLog
  /\ pc' = "done"
  /\ UNCHANGED <<caller, registryVars, parserVars, otherVars, ui_callback, uiStatus, chatVars, argVars, messages, execVars,
                 outcome, exc, invoked, modelCalls, bindingCalls>>

ChatNext == ChatCall \/ ChatLoop \/ ChatAfterStep \/ ChatReturn

Next == StepNext(ChatResponses) \/ ChatNext

\* step and chat, the model answering with one of ChatResponses
Spec == Init /\ [][Next]_vars

\* the agent is one synchronous thread: while a call of step or chat is
\* under way and its collaborators return, it takes its next step
FairSpec == Spec /\ WF_vars(Next)

\* ------------------------------------------- two conversations in a row
\* answers of the scripted conversations: one call, a batch, a decline and a
\* call that fails validation
ReplayLists == {<<ArmOk>>, <<CameraOk, ArmOk>>, <<DeclineReason>>, <<ArmMissing>>}

\* one step of a script: the answer of the model (r) and the position of the
\* call whose binding raises (fails, 0 when every binding returns)
ReplaySteps ==
  {[r |-> Response("plan", c), fails |-> f] :
     c \in ReplayLists \ {<<DeclineReason>>, <<ArmMissing>>}, f \in 0..2}
  \cup {[r |-> Response("plan", c), fails |-> 0] : c \in ReplayLists}

\* what the collaborators do in each step of a conversation, fixed before it starts
Scripts == {sc \in SeqsUpTo(ReplaySteps, MaxSteps) :
              \A k \in 1..Len(sc) : sc[k].fails <= Len(sc[k].r.calls)}

\* the agent before two conversations that meet the same collaborators
InitRechat ==
  /\ InitAgent
  /\ response_text = << >>
  /\ parsed = NoParse
  /\ text_parts = NoParts
  /\ script \in Scripts
  /\ firstHistory = << >>
  /\ chatNo = 0
  /\ InitLogging
  /\ InitGradio
  /\ InitConnection

\* mutant: the history of the earlier conversation is kept
ChatScriptedKeepsHistory ==
  /\ pc \in {"idle", "done"}
  /\ chatNo < 2
  /\ chatNo' = chatNo + 1
  /\ firstHistory' = IF pc = "done" THEN history ELSE firstHistory
  /\ max_steps' = Len(script)
  /\ history' = history
  /\ current_input' = "user"
  /\ step_num' = 0
  /\ caller' = "chat"
  /\ pc' = "chat_loop"
  /\ UNCHANGED <<registryVars, parserVars, script, loggerVars, gradioVars, connVars, ui_callback,
                 uiLog, uiStatus,
                 argVars, messages, execVars, outcome, exc, invoked, modelCalls, bindingCalls>>

\* agent.py 413-425: chat is called on a new agent, and again after it has
\* returned; the value it returned the first time is kept for comparison
ChatScripted ==
  /\ pc \in {"idle", "done"}
  /\ chatNo < 2
  /\ chatNo' = chatNo + 1
  /\ firstHistory' = IF pc = "done" THEN history ELSE firstHistory
  /\ max_steps' = Len(script)
  /\ history' = << >>
  /\ current_input' = "user"
  /\ step_num' = 0
  /\ caller' = "chat"
  /\ pc' = "chat_loop"
  /\ UNCHANGED <<registryVars, parserVars, script, loggerVars, gradioVars, connVars, ui_callback,
                 uiLog, uiStatus,
                 argVars, messages, execVars, outcome, exc, invoked, modelCalls, bindingCalls>>

\* agent.py 295-357 with the model giving the answer of the script
ReplayGenerate == Generate({script[step_num + 1].r})

\* agent.py 361-411 with the binding of the call raising where the script says
ReplayExec ==
  /\ ExecCall
  /\ (Len(results') = Len(results)) <=> (script[step_num + 1].fails = idx)

NextReplay ==
  \/ ChatScripted
  \/ ChatLoop
  \/ BuildRequest
  \/ ReplayGenerate
  \/ ReplayExec
  \/ ChatAfterStep
  \/ ChatReturn

\* chat called twice on one agent, both conversations meeting the same model
\* answers and the same binding behaviour
SpecRechat == InitRechat /\ [][NextReplay]_vars

\* ------------------------------------------------- utils/logger.py
\* arguments of setup_logging: the level, and log_dir as whether the
\* directory can be created when the call gets there; enable_colors only
\* chooses the formatter of the handler and is left out
LogLevels == {"DEBUG", "INFO"}

\* the calls a thread can make: setup_logging with any arguments, and
\* get_logger, which calls setup_logging() with the defaults (line 172)
LogCallsOf ==
  {[fn |-> "setup_logging", level |-> l, dirOk |-> d] : l \in LogLevels, d \in BOOLEAN}
  \cup {[fn |-> "get_logger", level |-> "DEBUG", dirOk |-> d] : d \in BOOLEAN}

\* a thread calls setup_logging or get_logger
LogCall(t) ==
  /\ logPc[t] = "out"
  /\ logCalls[t] < MaxLogCalls
  /\ \E c \in LogCallsOf : logCall' = [logCall EXCEPT ![t] = c]
  /\ logCalls' = [logCalls EXCEPT ![t] = @ + 1]
  /\ logRet' = [logRet EXCEPT ![t] = "none"]
  /\ logPc' = [logPc EXCEPT ![t] = "enter"]
  /\ UNCHANGED <<agentVars, replayVars, gradioVars, connVars, configured, config_lock, handlers, root_level>>

\* mutant: the flag is tested without taking the lock
LogAcquireNoLock(t) ==
  /\ logPc[t] = "enter"
  /\ config_lock' = t
  /\ logPc' = [logPc EXCEPT ![t] = "check"]
  /\ UNCHANGED <<agentVars, replayVars, gradioVars, connVars, configured, handlers, root_level, logCall, logRet, logCalls>>

\* logger.py 133: with _config_lock, entered when the lock is free
LogAcquire(t) ==
  /\ logPc[t] = "enter"
  /\ config_lock = 0
  /\ config_lock' = t
  /\ logPc' = [logPc EXCEPT ![t] = "check"]
  /\ UNCHANGED <<agentVars, replayVars, gradioVars, connVars, configured, handlers, root_level, logCall, logRet, logCalls>>

\* logger.py 134-135: already configured, the root logger is returned and the
\* lock released; get_logger then returns logging.getLogger(name)
LogCheck(t) ==
  /\ logPc[t] = "check"
  /\ IF configured
     THEN /\ config_lock' = 0
          /\ logRet' = [logRet EXCEPT ![t] = "logger"]
          /\ logCall' = [logCall EXCEPT ![t] = NoLogCall]
          /\ logPc' = [logPc EXCEPT ![t] = "out"]
     ELSE /\ logPc' = [logPc EXCEPT ![t] = "mkdir"]
          /\ UNCHANGED <<config_lock, logRet, logCall>>
  /\ UNCHANGED <<agentVars, replayVars, gradioVars, connVars, configured, handlers, root_level, logCalls>>

\* logger.py 137-139: the log directory is created; when mkdir raises, the
\* exception leaves setup_logging (and get_logger) and the with releases the lock
LogMkdir(t) ==
  /\ logPc[t] = "mkdir"
  /\ IF logCall[t].dirOk
     THEN /\ logPc' = [logPc EXCEPT ![t] = "add"]
          /\ UNCHANGED <<config_lock, logRet, logCall>>
     ELSE /\ config_lock' = 0
          /\ logRet' = [logRet EXCEPT ![t] = "raised"]
          /\ logCall' = [logCall EXCEPT ![t] = NoLogCall]
          /\ logPc' = [logPc EXCEPT ![t] = "out"]
  /\ UNCHANGED <<agentVars, replayVars, gradioVars, connVars, configured, handlers, root_level, logCalls>>

\* logger.py 141-155: the level is set and the console handler is added
LogAddHandler(t) ==
  /\ logPc[t] = "add"
  /\ root_level' = logCall[t].level
  /\ handlers' = Append(handlers, [level |-> logCall[t].level, by |-> t])
  /\ logPc' = [logPc EXCEPT ![t] = "flag"]
  /\ UNCHANGED <<agentVars, replayVars, gradioVars, connVars, configured, config_lock, logCall, logRet, logCalls>>

\* logger.py 157-159: the flag is set, the logger returned, the lock released
LogSetFlag(t) ==
  /\ logPc[t] = "flag"
  /\ configured' = TRUE
  /\ config_lock' = 0
  /\ logRet' = [logRet EXCEPT ![t] = "logger"]
  /\ logCall' = [logCall EXCEPT ![t] = NoLogCall]
  /\ logPc' = [logPc EXCEPT ![t] = "out"]
  /\ UNCHANGED <<agentVars, replayVars, gradioVars, connVars, handlers, root_level, logCalls>>

NextLogging ==
  \E t \in LogThreads :
    \/ LogCall(t)
    \/ LogAcquire(t)
    \/ LogCheck(t)
    \/ LogMkdir(t)
    \/ LogAddHandler(t)
    \/ LogSetFlag(t)

\* threads calling setup_logging and get_logger in any interleaving
SpecLogging == Init /\ [][NextLogging]_vars

\* ------------------------------------------------- web/gradio_app.py
\* the agent of the web interface has the GradioUI as its observer
InitWeb == Init /\ ui_callback

\* what the agent callback does for a request (run_web_ui.py 15-54): a single
\* step, a chat (which sends its final report itself, agent.py 480-484), or
\* an exception that the callback turns into an error text
RequestKinds == {"step", "chat", "error"}

\* GradioUI.add_assistant_response (gradio_app.py 34-43)
AddAssistantResponse(h, response) ==
  IF h # << >> THEN [h EXCEPT ![Len(h)] = Pair(h[Len(h)].user, response)]
  ELSE <<Pair(0, response)>>

\* gradio_app.py 93-94: a blank message is answered at once
ChatFnBlank(r) ==
  /\ reqPc[r] = "new"
  /\ reqPc' = [reqPc EXCEPT ![r] = "returned"]
  /\ reqKind' = [reqKind EXCEPT ![r] = "blank"]
  /\ UNCHANGED <<agentVars, replayVars, loggerVars, connVars, chat_history, llm_outputs, ui_tool_calls,
                 ui_lock, reqSeen, uiPc, uiGot, llmAdded, toolAdded>>

\* gradio_app.py 97 and 28-32: add_user_message appends the pair of the request
ChatFnStart(r) ==
  /\ reqPc[r] = "new"
  /\ ui_lock = 0
  /\ chat_history' = Append(chat_history, Pair(r, NoReply))
  /\ \E k \in RequestKinds : reqKind' = [reqKind EXCEPT ![r] = k]
  /\ reqPc' = [reqPc EXCEPT ![r] = "callback"]
  /\ UNCHANGED <<agentVars, replayVars, loggerVars, connVars, llm_outputs, ui_tool_calls, ui_lock,
                 reqSeen, uiPc, uiGot, llmAdded, toolAdded>>

\* agent.py 480-484 called from run_web_ui.py 23: chat sends its final report
AgentFinalReport(r) ==
  /\ reqPc[r] = "callback"
  /\ reqKind[r] = "chat"
  /\ ui_lock = 0
  /\ chat_history' = AddAssistantResponse(chat_history, Reply(r, "final"))
  /\ reqPc' = [reqPc EXCEPT ![r] = "respond"]
  /\ UNCHANGED <<agentVars, replayVars, loggerVars, connVars, llm_outputs, ui_tool_calls, ui_lock,
                 reqKind, reqSeen, uiPc, uiGot, llmAdded, toolAdded>>

\* run_web_ui.py 49 and 54: the callback sends the response, or the error text
CallbackRespond(r) ==
  /\ \/ reqPc[r] = "respond"
     \/ reqPc[r] = "callback" /\ reqKind[r] # "chat"
  /\ ui_lock = 0
  /\ chat_history' = AddAssistantResponse(chat_history,
                        Reply(r, IF reqKind[r] = "error" THEN "error" ELSE "response"))
  /\ reqPc' = [reqPc EXCEPT ![r] = "format"]
  /\ UNCHANGED <<agentVars, replayVars, loggerVars, connVars, llm_outputs, ui_tool_calls, ui_lock,
                 reqKind, reqSeen, uiPc, uiGot, llmAdded, toolAdded>>

\* gradio_app.py 110-118: chat_fn returns the chat history it reads under the lock
ChatFnReturn(r) ==
  /\ reqPc[r] = "format"
  /\ ui_lock = 0
  /\ reqSeen' = [reqSeen EXCEPT ![r] = chat_history]
  /\ reqPc' = [reqPc EXCEPT ![r] = "returned"]
  /\ UNCHANGED <<agentVars, replayVars, loggerVars, connVars, chat_history, llm_outputs, ui_tool_calls,
                 ui_lock, reqKind, uiPc, uiGot, llmAdded, toolAdded>>

NextGradioChat ==
  \E r \in Requests :
    \/ ChatFnBlank(r)
    \/ ChatFnStart(r)
    \/ AgentFinalReport(r)
    \/ CallbackRespond(r)
    \/ ChatFnReturn(r)

\* chat requests handled at the same time by chat_fn on one GradioUI
SpecGradioChat == InitWeb /\ [][NextGradioChat]_vars

\* ------------------------------------- GradioUI buffers (gradio_app.py 45-79)
\* the caps written in add_llm_output, add_tool_call and get_tool_history
LlmCap == 100
ToolCap == 50
HistoryWindow == 20

UiThreads == 1..MaxThreads

\* list[-n:]
LastN(q, n) == IF Len(q) <= n THEN q ELSE SubSeq(q, Len(q) - n + 1, Len(q))

\* mutant: add_llm_output appends without holding the lock
AddLlmOutputAppendNoLock(t) ==
  /\ uiPc[t] = "idle"
  /\ llmAdded < MaxLlmAdds
  /\ ui_lock' = t
  /\ llmAdded' = llmAdded + 1
  /\ llm_outputs' = Append(llm_outputs, llmAdded + 1)
  /\ uiPc' = [uiPc EXCEPT ![t] = "llm_trim"]
  /\ uiGot' = NoResult
  /\ UNCHANGED <<agentVars, replayVars, loggerVars, connVars, chat_history, ui_tool_calls, reqPc,
                 reqKind, reqSeen, toolAdded>>

\* gradio_app.py 47-48: the lock is taken and the output appended; outputs
\* are named by their arrival number
AddLlmOutputAppend(t) ==
  /\ uiPc[t] = "idle"
  /\ ui_lock = 0
  /\ llmAdded < MaxLlmAdds
  /\ ui_lock' = t
  /\ llmAdded' = llmAdded + 1
  /\ llm_outputs' = Append(llm_outputs, llmAdded + 1)
  /\ uiPc' = [uiPc EXCEPT ![t] = "llm_trim"]
  /\ uiGot' = NoResult
  /\ UNCHANGED <<agentVars, replayVars, loggerVars, connVars, chat_history, ui_tool_calls, reqPc,
                 reqKind, reqSeen, toolAdded>>

\* gradio_app.py 50-51: pop(0) when the list is over its cap; the lock is released
AddLlmOutputTrim(t) ==
  /\ uiPc[t] = "llm_trim"
  /\ llm_outputs' = IF Len(llm_outputs) > LlmCap THEN Tail(llm_outputs) ELSE llm_outputs
  /\ ui_lock' = 0
  /\ uiPc' = [uiPc EXCEPT ![t] = "idle"]
  /\ UNCHANGED <<agentVars, replayVars, loggerVars, connVars, chat_history, ui_tool_calls, reqPc,
                 reqKind, reqSeen, uiGot, llmAdded, toolAdded>>

\* gradio_app.py 55-56
AddToolCallAppend(t) ==
  /\ uiPc[t] = "idle"
  /\ ui_lock = 0
  /\ toolAdded < MaxToolAdds
  /\ ui_lock' = t
  /\ toolAdded' = toolAdded + 1
  /\ ui_tool_calls' = Append(ui_tool_calls, toolAdded + 1)
  /\ uiPc' = [uiPc EXCEPT ![t] = "tool_trim"]
  /\ uiGot' = NoResult
  /\ UNCHANGED <<agentVars, replayVars, loggerVars, connVars, chat_history, llm_outputs, reqPc,
                 reqKind, reqSeen, llmAdded>>

\* gradio_app.py 58-59
AddToolCallTrim(t) ==
  /\ uiPc[t] = "tool_trim"
  /\ ui_tool_calls' = IF Len(ui_tool_calls) > ToolCap THEN Tail(ui_tool_calls)
                      ELSE ui_tool_calls
  /\ ui_lock' = 0
  /\ uiPc' = [uiPc EXCEPT ![t] = "idle"]
  /\ UNCHANGED <<agentVars, replayVars, loggerVars, connVars, chat_history, llm_outputs, reqPc,
                 reqKind, reqSeen, uiGot, llmAdded, toolAdded>>

\* gradio_app.py 66-69: the last output, or {} (no value) when there is none
GetLatestLlmOutput(t) ==
  /\ uiPc[t] = "idle"
  /\ ui_lock = 0
  /\ uiGot' = [op |-> "get_latest_llm_output", value |-> LastN(llm_outputs, 1)]
  /\ UNCHANGED <<agentVars, replayVars, loggerVars, connVars, chat_history, llm_outputs, ui_tool_calls,
                 ui_lock, reqPc, reqKind, reqSeen, uiPc, llmAdded, toolAdded>>

\* gradio_app.py 71-74: tool_calls[-20:]
GetToolHistory(t) ==
  /\ uiPc[t] = "idle"
  /\ ui_lock = 0
  /\ uiGot' = [op |-> "get_tool_history", value |-> LastN(ui_tool_calls, HistoryWindow)]
  /\ UNCHANGED <<agentVars, replayVars, loggerVars, connVars, chat_history, llm_outputs, ui_tool_calls,
                 ui_lock, reqPc, reqKind, reqSeen, uiPc, llmAdded, toolAdded>>

NextGradioBuffers ==
  \E t \in UiThreads :
    \/ AddLlmOutputAppend(t)
    \/ AddLlmOutputTrim(t)
    \/ AddToolCallAppend(t)
    \/ AddToolCallTrim(t)
    \/ GetLatestLlmOutput(t)
    \/ GetToolHistory(t)

\* threads calling the buffer methods of one GradioUI in any interleaving
SpecGradioBuffers == InitWeb /\ [][NextGradioBuffers]_vars

\* ------------------------------------------------- sim/connection.py
\* ways confirmConnection and enableApiControl fail
ConfirmErrors == {"refused", "timeout"}
EnableErrors == {"no vehicle"}

\* connection.py 36-38: connect is called on a manager with some max_retries
ConnectCall ==
  /\ connPc = "idle"
  /\ \E m \in 0..MaxRetries : max_retries' = m
  /\ attempt' = 0
  /\ last_err' = NoError
  /\ connPc' = "loop"
  /\ UNCHANGED <<agentVars, replayVars, loggerVars, gradioVars, cause, api_control, attemptLog>>

\* mutant: the loop makes one attempt more than max_retries
ConnectLoopOneMore ==
  /\ connPc = "loop"
  /\ IF attempt <= max_retries
     THEN /\ attempt' = attempt + 1
          /\ connPc' = "confirm"
          /\ cause' = cause
     ELSE /\ connPc' = "raised"
          /\ cause' = last_err
          /\ attempt' = attempt
  /\ UNCHANGED <<agentVars, replayVars, loggerVars, gradioVars, max_retries, last_err,
                 api_control, attemptLog>>

\* connection.py 39 and 47: range(max_retries) has another attempt, or the
\* loop is over and RuntimeError is raised from last_err
ConnectLoop ==
  /\ connPc = "loop"
  /\ IF attempt < max_retries
     THEN /\ attempt' = attempt + 1
          /\ connPc' = "confirm"
          /\ cause' = cause
     ELSE /\ connPc' = "raised"
          /\ cause' = last_err
          /\ attempt' = attempt
  /\ UNCHANGED <<agentVars, replayVars, loggerVars, gradioVars, max_retries, last_err,
                 api_control, attemptLog>>

\* connection.py 41, 44-45: confirmConnection returns or raises
ConfirmConnection ==
  /\ connPc = "confirm"
  /\ \/ /\ connPc' = "enable"
        /\ UNCHANGED <<last_err, attemptLog>>
     \/ \E k \in ConfirmErrors :
          /\ last_err' = ConnError(k, attempt)
          /\ attemptLog' = Append(attemptLog, ConnError(k, attempt))
          /\ connPc' = "sleep"
  /\ UNCHANGED <<agentVars, replayVars, loggerVars, gradioVars, max_retries, attempt, cause,
                 api_control>>

\* connection.py 42-45: enableApiControl returns, and connect with it, or raises
EnableApiControl ==
  /\ connPc = "enable"
  /\ \/ /\ api_control' = TRUE
        /\ attemptLog' = Append(attemptLog, ConnError("ok", attempt))
        /\ connPc' = "returned"
        /\ UNCHANGED last_err
     \/ \E k \in EnableErrors :
          /\ last_err' = ConnError(k, attempt)
          /\ attemptLog' = Append(attemptLog, ConnError(k, attempt))
          /\ connPc' = "sleep"
          /\ UNCHANGED api_control
  /\ UNCHANGED <<agentVars, replayVars, loggerVars, gradioVars, max_retries, attempt, cause>>

\* connection.py 46: time.sleep(retry_interval_sec)
ConnectSleep ==
  /\ connPc = "sleep"
  /\ connPc' = "loop"
  /\ UNCHANGED <<agentVars, replayVars, loggerVars, gradioVars, max_retries, attempt,
                 last_err, cause, api_control, attemptLog>>

NextConnect ==
  \/ ConnectCall
  \/ ConnectLoop
  \/ ConfirmConnection
  \/ EnableApiControl
  \/ ConnectSleep

\* one call of ConnectionManager.connect
SpecConnect == Init /\ [][NextConnect]_vars

\* connect is one synchronous call: while the simulator client answers
\* (returns or raises), the call takes its next step
FairSpecConnect == SpecConnect /\ WF_vars(NextConnect)

\* ================================================================ claims
\* the call names a tool and validate_arguments rejects it: the tool is not
\* registered, or a required parameter is absent or null in its arguments
Invalid(tc) ==
  /\ tc.tool_name # Null
  /\ \/ ~HasTool(tools, tc.tool_name)
     \/ /\ GetArguments(tc).tag = "map"
        /\ \E k \in 1..Len(GetTool(tools, tc.tool_name).required) :
             ~Supplied(GetArguments(tc), GetTool(tools, tc.tool_name).required[k])

\* the call names a registered tool and validate_arguments accepts it
Valid(tc) ==
  /\ tc.tool_name # Null
  /\ HasTool(tools, tc.tool_name)
  /\ \/ GetTool(tools, tc.tool_name).required = << >>
     \/ /\ GetArguments(tc).tag = "map"
        /\ \A k \in 1..Len(GetTool(tools, tc.tool_name).required) :
             Supplied(GetArguments(tc), GetTool(tools, tc.tool_name).required[k])

InvalidCalls == {i \in 1..Len(tool_calls) : Invalid(tool_calls[i])}
NullNamed == {i \in 1..Len(tool_calls) : tool_calls[i].tool_name = Null}
InStep == pc \in {"exec", "step_done", "raised"}

IsValidationFailureOf(o, tc) ==
  /\ o.success = PyFalse
  /\ o.error_type = "missing_required_parameters"
  /\ o.tool_name = tc.tool_name
  /\ o.arguments = GetArguments(tc)

\* C1 as stated: whenever some call of the list fails validate_arguments, no
\* binding is invoked and the outcome is the missing_required_parameters
\* failure of the first failing call
C1_Original ==
  (pc = "step_done" /\ InvalidCalls # {}) =>
     /\ invoked = << >>
     /\ IsValidationFailureOf(outcome, tool_calls[Min(InvalidCalls)])

\* C1 (amended): whenever some call of the list fails validate_arguments, no
\* binding is invoked in that step; and when the first failing call is also
\* the first call of the list that has a null tool_name or does not pass
\* validation, step returns the missing_required_parameters failure carrying
\* that call's name and arguments
C1_ValidationGate ==
  (InStep /\ InvalidCalls # {}) =>
     /\ invoked = << >>
     /\ pc # "exec"
     /\ (\A j \in 1..(Min(InvalidCalls) - 1) : Valid(tool_calls[j])) =>
          /\ pc = "step_done"
          /\ IsValidationFailureOf(outcome, tool_calls[Min(InvalidCalls)])

\* a list of three calls whose last call alone is rejected has been answered
\* with the validation failure
C1_Witness ==
  /\ pc = "step_done"
  /\ Len(tool_calls) = 3
  /\ InvalidCalls = {3}
  /\ Valid(tool_calls[1]) /\ Valid(tool_calls[2])
  /\ outcome.error_type = "missing_required_parameters"
  /\ invoked = << >>

\* C2: the bindings of a validated list are invoked in list order, one at a
\* time, each at most once, and binding i+1 only after binding i returned
\* without raising
C2_OrderedExecution ==
  (pc \in {"exec", "step_done"}) =>
     /\ \A j \in 1..Len(invoked) :
          /\ invoked[j].idx = j
          /\ invoked[j].tool_name = tool_calls[j].tool_name
          /\ (j < Len(invoked) => ~invoked[j].raised)
     /\ (pc = "exec" => /\ Len(invoked) = idx - 1
                        /\ \A j \in 1..Len(invoked) : ~invoked[j].raised)

\* three different bindings have been invoked one after another
C2_Witness ==
  /\ pc = "step_done"
  /\ Len(invoked) = 3
  /\ invoked[1].tool_name # invoked[2].tool_name
  /\ invoked[2].tool_name # invoked[3].tool_name
  /\ ~invoked[3].raised

\* C3: when binding k is the first to raise, the step stops there and
\* returns success=false, error_type=execution_error, the name of call k and
\* results holding exactly the k-1 successful outcomes before it, in order
C3_PartialFailure ==
  (pc = "step_done" /\ invoked # << >> /\ invoked[Len(invoked)].raised) =>
     LET k == Len(invoked)
     IN /\ invoked[k].idx = k
        /\ outcome.success = PyFalse
        /\ outcome.error_type = "execution_error"
        /\ outcome.tool_name = tool_calls[k].tool_name
        /\ outcome.results.present
        /\ Len(outcome.results.list) = k - 1
        /\ \A j \in 1..(k - 1) :
             /\ outcome.results.list[j].tool_name = tool_calls[j].tool_name
             /\ outcome.results.list[j].arguments = GetArguments(tool_calls[j])
             /\ outcome.results.list[j].result = invoked[j].result
             /\ outcome.results.list[j].success = PyTrue

\* a batch of three calls whose second binding raised
C3_Witness ==
  /\ pc = "step_done"
  /\ Len(tool_calls) = 3
  /\ Len(invoked) = 2
  /\ invoked[2].raised
  /\ Len(outcome.results.list) = 1

\* a step outcome after which chat goes on: a tool ran and success is true
SuccessfulToolOutcome(o) == o.tool_name # Null /\ o.success = PyTrue

\* C4: once a step of a chat has returned an outcome with tool_name=null or
\* success not true, the model is not asked again and no binding is invoked
\* again; so every outcome of the history but the last is a successful tool
\* outcome
C4_HaltsOnTerminal ==
  /\ [](caller = "chat" =>
          /\ \A i \in 1..(Len(history) - 1) : SuccessfulToolOutcome(history[i])
          /\ (history # << >> /\ ~SuccessfulToolOutcome(Last(history)))
               => pc \in {"chat_final", "done"})
  /\ [][(/\ caller = "chat"
         /\ \/ pc = "step_done" /\ ~SuccessfulToolOutcome(outcome)
            \/ history # << >> /\ ~SuccessfulToolOutcome(Last(history)))
        => /\ modelCalls' = modelCalls
           /\ bindingCalls' = bindingCalls
           /\ pc' \in {"chat_final", "done"}]_vars

\* a chat with budget 3 ended after its second step, which failed
C4_Witness ==
  /\ pc = "done"
  /\ max_steps = 3
  /\ Len(history) = 2
  /\ SuccessfulToolOutcome(history[1])
  /\ history[2].success = PyFalse
  /\ modelCalls = 2

\* C5: chat runs step at most max_steps times and ends; the history holds one
\* outcome per step run, so at most max_steps, exactly max_steps when every
\* step returned a successful tool outcome, and exactly 1 for max_steps = 1
C5_StepBudget ==
  /\ [](caller = "chat" =>
          /\ Len(history) <= max_steps
          /\ (pc \in {"build", "generate", "exec", "step_done"})
               => (Len(history) = step_num /\ step_num < max_steps)
          /\ (pc = "done") =>
               /\ (\A i \in 1..Len(history) : SuccessfulToolOutcome(history[i]))
                    => Len(history) = max_steps
               /\ max_steps = 1 => Len(history) = 1)
  /\ (caller = "chat" ~> pc \in {"done", "raised"})

\* a chat used its whole budget of three successful steps
C5_Witness ==
  /\ pc = "done"
  /\ max_steps = 3
  /\ Len(history) = 3
  /\ \A i \in 1..3 : SuccessfulToolOutcome(history[i])

\* C6: step always returns an outcome; no exception leaves it
C6_NeverRaises == pc # "raised"

\* C7: a returned outcome with success=false has an error and an error_type,
\* and one with tool_name=null has a non-null reason
C7_OutcomeInvariant ==
  (pc = "step_done") =>
     /\ outcome.success = PyFalse
          => (outcome.error # NoMsg /\ outcome.error_type \notin {Absent, Null})
     /\ outcome.tool_name = Null => outcome.reason \notin {Absent, Null}

IsEmptyNameOutcome(o) ==
  /\ o.tool_name = Null
  /\ o.error_type = Absent
  /\ o.reason = ReasonEmptyName

\* C8 as stated: a list of two or more calls with a null tool_name in it
\* always ends in success=false, no error_type and the empty-name reason,
\* with no binding invoked
C8_Original ==
  (InStep /\ Len(tool_calls) >= 2 /\ NullNamed # {}) =>
     /\ pc = "step_done"
     /\ invoked = << >>
     /\ IsEmptyNameOutcome(outcome)
     /\ outcome.success = PyFalse

\* C8 (amended): for a list of two or more calls with a null tool_name in it
\* no binding is invoked; when every call before the first null tool_name
\* passes validation the outcome has tool_name=null, no success field, no
\* error_type and the empty-name reason; when an earlier call fails
\* validation the outcome is that call's missing_required_parameters failure
C8_MalformedRequest ==
  (InStep /\ Len(tool_calls) >= 2 /\ NullNamed # {}) =>
     /\ invoked = << >>
     /\ pc # "exec"
     /\ (\A j \in 1..(Min(NullNamed) - 1) : Valid(tool_calls[j])) =>
          /\ pc = "step_done"
          /\ IsEmptyNameOutcome(outcome)
          /\ outcome.success = Absent
     /\ (pc = "step_done" /\ \E j \in 1..(Min(NullNamed) - 1) : Invalid(tool_calls[j]))
          => outcome.error_type = "missing_required_parameters"

\* two valid calls followed by a call with a null tool_name were refused
C8_Witness ==
  /\ pc = "step_done"
  /\ Len(tool_calls) = 3
  /\ NullNamed = {3}
  /\ Valid(tool_calls[1]) /\ Valid(tool_calls[2])
  /\ IsEmptyNameOutcome(outcome)
  /\ invoked = << >>

\* C9: an empty call list, and a single call with a null tool_name, invoke no
\* binding and give tool_name=null; the reason is the fixed no-parse reason
\* for the first and the call's reason field (the default when it has none)
\* for the second, the outcomes differ in tool_calls, and either ends a chat
C9_NoActionTerminals ==
  /\ [](pc = "step_done" =>
          /\ tool_calls = << >> =>
               /\ invoked = << >>
               /\ outcome.tool_name = Null
               /\ outcome.reason = ReasonNoParse
               /\ outcome.tool_calls = CallList(TRUE, << >>)
          /\ (Len(tool_calls) = 1 /\ tool_calls[1].tool_name = Null) =>
               /\ invoked = << >>
               /\ outcome.tool_name = Null
               /\ outcome.reason = IF tool_calls[1].reason = Absent THEN ReasonDefault
                                   ELSE tool_calls[1].reason
               /\ outcome.tool_calls = CallList(TRUE, tool_calls)
               /\ outcome # NoCallOutcome(outcome.plan, outcome.llm_response))
  /\ [][(caller = "chat" /\ pc = "step_done" /\ Len(tool_calls) <= 1
         /\ outcome.tool_name = Null)
        => (pc' = "chat_final" /\ history' = Append(history, outcome))]_vars

\* a chat with budget 3 ended at its second step, where the model declined
\* without giving a reason
C9_Witness ==
  /\ pc = "done"
  /\ max_steps = 3
  /\ Len(history) = 2
  /\ history[2].tool_name = Null
  /\ history[2].reason = ReasonDefault
  /\ history[2].tool_calls.list = <<DeclineNoReason>>

\* every call of the list was invoked and returned
AllExecuted ==
  /\ pc = "step_done"
  /\ tool_calls # << >>
  /\ Len(invoked) = Len(tool_calls)
  /\ \A j \in 1..Len(invoked) : ~invoked[j].raised

IsOutcomeOfCall(o, j) ==
  /\ o.tool_name = tool_calls[j].tool_name
  /\ o.arguments = GetArguments(tool_calls[j])
  /\ o.result = invoked[j].result
  /\ o.success = PyTrue

SuccessShape ==
  AllExecuted =>
     IF Len(tool_calls) = 1 THEN IsOutcomeOfCall(outcome, 1)
     ELSE /\ outcome.tool_name = "__batch__"
          /\ outcome.success = PyTrue
          /\ Len(outcome.results.list) = Len(tool_calls)
          /\ \A j \in 1..Len(tool_calls) : IsOutcomeOfCall(outcome.results.list[j], j)

\* C10 as stated: the success shape, and no outcome is named __batch__
\* unless two or more calls all executed
C10_Original ==
  /\ SuccessShape
  /\ (pc = "step_done" /\ outcome.tool_name = "__batch__")
       => (AllExecuted /\ Len(tool_calls) >= 2)

\* C10 (amended): one executed call gives its plain outcome, n >= 2 executed
\* calls give the __batch__ outcome with the n outcomes in list order; a
\* successful outcome named __batch__ comes from nothing else
C10_SuccessShape ==
  /\ SuccessShape
  /\ (pc = "step_done" /\ outcome.tool_name = "__batch__" /\ outcome.success = PyTrue)
       => (AllExecuted /\ Len(tool_calls) >= 2)

\* a batch of three different calls succeeded
C10_Witness ==
  /\ AllExecuted
  /\ Len(tool_calls) = 3
  /\ tool_calls[1].tool_name # tool_calls[2].tool_name
  /\ tool_calls[2].tool_name # tool_calls[3].tool_name
  /\ outcome.tool_name = "__batch__"
  /\ outcome.results.list[3].result.kind = "image"

\* ------------------------------------------------------ registry claims
\* p is absent from arguments or mapped to null
NotSupplied(arguments, p) ==
  \/ \A e \in arguments.kv : e[1] # p
  \/ <<p, Null>> \in arguments.kv

\* the position of p in the sequence q
PosIn(q, p) == CHOOSE i \in 1..Len(q) : q[i] = p

\* m lists exactly the names of required that arguments does not supply, each
\* once and in the order of required
ListsMissing(m, required, arguments) ==
  /\ \A i \in 1..Len(m) :
       /\ \E k \in 1..Len(required) : required[k] = m[i]
       /\ NotSupplied(arguments, m[i])
  /\ \A k \in 1..Len(required) :
       NotSupplied(arguments, required[k]) => \E i \in 1..Len(m) : m[i] = required[k]
  /\ \A i, j \in 1..Len(m) : i < j => PosIn(required, m[i]) < PosIn(required, m[j])

\* C11: for a registered tool and a dict of arguments, validate_arguments
\* fails exactly when some name of the required list is absent or null,
\* whatever other keys the dict holds, and the message then lists the missing
\* names in the order of the required list; for an unregistered name it fails
\* with the unknown-tool message; it leaves the registry as it was
C11_ValidateArguments ==
  /\ [](regCall.op = "validate" =>
          IF HasTool(tools, regCall.name)
          THEN regCall.arguments.tag = "map" =>
                 LET required == GetTool(tools, regCall.name).required
                 IN /\ ~regCall.v.raised
                    /\ ~regCall.v.ok <=>
                         \E k \in 1..Len(required) :
                            NotSupplied(regCall.arguments, required[k])
                    /\ ~regCall.v.ok =>
                         /\ regCall.v.msg[1] = "missing required parameters"
                         /\ ListsMissing(Tail(regCall.v.msg), required, regCall.arguments)
          ELSE /\ ~regCall.v.raised
               /\ ~regCall.v.ok
               /\ regCall.v.msg = <<"unknown tool", regCall.name>>)
  /\ [][regCall'.op = "validate" => tools' = tools]_vars

\* move_to_position was validated with y null, z absent, x supplied and a key
\* the schema does not know: the message names y and z, in that order
C11_Witness ==
  /\ regCall.op = "validate"
  /\ regCall.name = "move_to_position"
  /\ GetTool(tools, "move_to_position").required = <<"x", "y", "z">>
  /\ regCall.arguments = ArgsMap({<<"x", "1">>, <<"y", Null>>, <<"speed", "1">>})
  /\ regCall.v.msg = <<"missing required parameters", "y", "z">>

\* C12: call_tool makes the call of the binding exactly when the name is
\* registered and validate_arguments accepts the arguments; for an unknown
\* name it fails with the unknown-tool failure, for rejected arguments with
\* the failure carrying the message of validate_arguments, and in both cases
\* no binding is called
C12_CallToolGate ==
  regCall.op = "call" =>
     LET v == ValidateArguments(tools, regCall.name, regCall.arguments)
         o == regCall.o
     IN /\ o.invoked <=> (HasTool(tools, regCall.name) /\ ~v.raised /\ v.ok)
        /\ ~HasTool(tools, regCall.name) =>
             /\ o.raised /\ ~o.invoked
             /\ o.etype = "ValueError"
             /\ o.msg = <<"unknown tool", regCall.name>>
        /\ (HasTool(tools, regCall.name) /\ ~v.raised /\ ~v.ok) =>
             /\ o.raised /\ ~o.invoked
             /\ o.etype = "ValueError"
             /\ o.msg = v.msg
             /\ o.msg[1] = "missing required parameters"
        /\ ~o.raised => o.invoked

\* move_to_position was called with x, y, z and its binding returned
C12_Witness ==
  /\ regCall.op = "call"
  /\ regCall.name = "move_to_position"
  /\ GetTool(tools, "move_to_position").func = "move_to_position"
  /\ regCall.arguments = ArgsMap({<<"x", "1">>, <<"y", "1">>, <<"z", "1">>})
  /\ regCall.o.invoked
  /\ ~regCall.o.raised

\* C13: whatever the binding raises, call_tool raises the one tool-execution
\* failure (RuntimeError) whose message carries the original message; the
\* failures raised without calling a binding are of another class
C13_SingleFailureKind ==
  (regCall.op = "call" /\ regCall.o.raised) =>
     /\ regCall.o.invoked =>
          /\ regCall.o.etype = "RuntimeError"
          /\ Len(regCall.o.msg) = 2
          /\ regCall.o.msg[1] = "tool call failed"
          /\ regCall.o.msg[2] \in {"simulator error", "stub error", "TypeError",
                                   "unknown camera"}
     /\ ~regCall.o.invoked => regCall.o.etype # "RuntimeError"

\* a stand-in binding raised and the caller got the tool-execution failure
C13_Witness ==
  /\ regCall.op = "call"
  /\ regCall.name = "stub_tool"
  /\ regCall.o.invoked
  /\ regCall.o.etype = "RuntimeError"
  /\ regCall.o.msg = Wrapped("stub error")

\* C14: the registry holds one entry per name; a name passed to register
\* holds the entry registered last for it, the other entries are as built;
\* validate_arguments and call_tool go by that last entry
C14_LastWriteWins ==
  /\ \A i, j \in 1..Len(tools) : tools[i].name = tools[j].name => i = j
  /\ \A i \in 1..Len(RegisteredTools) :
       /\ tools[i].name = RegisteredTools[i].name
       /\ tools[i].name \notin RegisterNames => tools[i] = RegisteredTools[i]
  /\ \A n \in RegisterNames :
       IF regLatest[n] = NoEntry
       THEN \A i \in 1..Len(tools) :
              tools[i].name = n => (i <= Len(RegisteredTools) /\ tools[i] = RegisteredTools[i])
       ELSE /\ HasTool(tools, n)
            /\ GetTool(tools, n) = regLatest[n]
            /\ (regCall.op = "validate" /\ regCall.name = n
                 /\ regCall.arguments.tag = "map") =>
                 (regCall.v.ok <=>
                    \A k \in 1..Len(regLatest[n].required) :
                       ~NotSupplied(regCall.arguments, regLatest[n].required[k]))
            /\ (regCall.op = "call" /\ regCall.name = n /\ ~regCall.o.raised) =>
                 regCall.o.result = ResStub(regLatest[n].func)
  /\ regCall.op = "register" =>
       (regLatest[regCall.name] # NoEntry
        /\ GetTool(tools, regCall.name) = regLatest[regCall.name])

\* move_to_position was registered again with a stand-in that requires only
\* z and x, and a call without y reached the stand-in
C14_Witness ==
  /\ regLatest["move_to_position"].func = "stub_b"
  /\ regLatest["move_to_position"].required = <<"z", "x">>
  /\ regLatest["stub_tool"].func = "stub_a"
  /\ Len(tools) = Len(RegisteredTools) + 1
  /\ regCall.op = "call"
  /\ regCall.name = "move_to_position"
  /\ regCall.arguments = ArgsMap({<<"x", "1">>, <<"z", "1">>})
  /\ regCall.o.result = ResStub("stub_b")

\* ------------------------------------------------- conversation claims
\* the image results of the get_camera_image calls that step outcome o
\* reports as successful: of the batch in batch order, or of the single call
ImagesOfStep(o) ==
  IF o.results.present
  THEN LET at == {j \in 1..Len(o.results.list) :
                    /\ o.results.list[j].tool_name = "get_camera_image"
                    /\ o.results.list[j].success = PyTrue
                    /\ o.results.list[j].result.kind = "image"}
           RECURSIVE InOrder(_)
           InOrder(j) ==
             IF j = 0 THEN << >>
             ELSE InOrder(j - 1) \o (IF j \in at THEN <<o.results.list[j].result>> ELSE << >>)
       IN InOrder(Len(o.results.list))
  ELSE IF o.tool_name = "get_camera_image" /\ o.success = PyTrue /\ o.result.kind = "image"
  THEN <<o.result>>
  ELSE << >>

\* messages of the request that come from the default observation
ObservationParts(msgs) ==
  SelectSeq(msgs, LAMBDA m : m \in {"observation", "observation_warning"})

\* messages of the request that carry a forwarded image
ImageParts(msgs) ==
  SelectSeq(msgs, LAMBDA m : m \in {"image:" \o c : c \in CameraNames})

\* C15: in a chat, step 0 is run with the default observation and without
\* forwarded images; every later step k is run without the default
\* observation and with exactly the images of the successful
\* get_camera_image calls of step k-1, in their order, whatever images the
\* steps before k-1 produced; the request sent to the model is built so
C15_ObservationThreading ==
  (caller = "chat" /\ pc \in {"build", "generate"}) =>
     /\ Len(history) = step_num
     /\ include_observation <=> step_num = 0
     /\ step_num = 0 => additional_images = << >>
     /\ step_num >= 1 => additional_images = ImagesOfStep(history[step_num])
     /\ pc = "generate" =>
          /\ Len(ObservationParts(messages)) = (IF step_num = 0 THEN 1 ELSE 0)
          /\ ImageParts(messages) =
               [i \in 1..Len(additional_images) |-> "image:" \o additional_images[i].camera]

\* the third step of a chat is about to ask the model: the first step took
\* two images in a batch, the second took one, and only that one is forwarded
C15_Witness ==
  /\ caller = "chat"
  /\ pc = "generate"
  /\ step_num = 2
  /\ history[1].tool_name = "__batch__"
  /\ ImagesOfStep(history[1]) = <<ResImage("BACK_CENTER"), ResImage("FRONT_LEFT")>>
  /\ history[2].tool_name = "get_camera_image"
  /\ additional_images = <<ResImage("FRONT_LEFT")>>
  /\ ~include_observation
  /\ ImageParts(messages) = <<"image:FRONT_LEFT">>

\* -------------------------------------------------------- observer claim
\* C16: the observer decides nothing: no exception of a notification leaves
\* step, an outcome with error_type=execution_error is returned only when
\* the binding called last raised, and calls that all returned give a
\* successful outcome
C16_ObserverIndependence ==
  /\ exc # ObserverError
  /\ pc = "step_done" =>
       /\ outcome.error # ObserverError
       /\ outcome.error_type = "execution_error"
            => (invoked # << >> /\ invoked[Len(invoked)].raised)
       /\ (tool_calls # << >> /\ Len(invoked) = Len(tool_calls)
            /\ \A j \in 1..Len(invoked) : ~invoked[j].raised)
            => outcome.success = PyTrue

\* ---------------------------------------------------------- parser claims
\* the parser has returned for response_text
HasParsed == pc \in {"parsed", "step_done"}

\* the text starts with free text that is more than white space
HasPlanPrefix == Trim(text_parts.prefix) # << >>

\* every object the text was put together from is a valid tool-call object
AllValidCalls == \A i \in 1..Len(text_parts.items) : text_parts.items[i] \in ValidCallObjects

\* C17: for a text made of a plan prefix and then a valid JSON array of two
\* or more tool-call objects, the parser returns the trimmed prefix as plan
\* and the objects of the array, all of them, in order, as tool_calls
C17_ArrayAfterPlan ==
  (/\ HasParsed
   /\ text_parts.kind = "array"
   /\ Len(text_parts.items) >= 2
   /\ AllValidCalls
   /\ HasPlanPrefix
   /\ text_parts.suffix = << >>) =>
     /\ parsed.plan = Join(Trim(text_parts.prefix))
     /\ parsed.tool_calls = text_parts.items

\* C18: for a text made of a plan prefix and then one valid tool-call object
\* (no array in it), the parser returns the trimmed prefix as plan and that
\* object as the only call
C18_EmbeddedObject ==
  (/\ HasParsed
   /\ text_parts.kind = "object"
   /\ AllValidCalls
   /\ HasPlanPrefix) =>
     /\ parsed.plan = Join(Trim(text_parts.prefix))
     /\ parsed.tool_calls = text_parts.items

\* C19: for a text that is as a whole one valid tool-call object the parser
\* returns that object as the only call and no plan; for a text that is as a
\* whole a JSON array of tool-call objects it returns the objects in order
\* and no plan
C19_WholeText ==
  (/\ HasParsed
   /\ text_parts.kind \in {"object", "array"}
   /\ AllValidCalls
   /\ text_parts.prefix = << >>
   /\ text_parts.suffix = << >>) =>
     /\ parsed.plan = Null
     /\ parsed.tool_calls = text_parts.items

\* the whole text is an array, written with white space, of a call with a
\* nested array of objects and a call whose arguments come before its name
C19_Witness ==
  /\ pc = "parsed"
  /\ text_parts.kind = "array"
  /\ text_parts.spaced
  /\ text_parts.prefix = << >>
  /\ text_parts.suffix = << >>
  /\ text_parts.items = <<CallPathObjects, CallArmArgsFirst>>
  /\ parsed.tool_calls = <<CallPathObjects, CallArmArgsFirst>>
  /\ parsed.plan = Null

\* the text is as a whole a tool-call object or an array of them, so that
\* the parser returns before it searches the text
WholeTextCalls ==
  /\ text_parts.kind \in {"object", "array"}
  /\ AllValidCalls
  /\ text_parts.prefix = << >>
  /\ text_parts.suffix = << >>

\* the span the parser reads its calls from when it searches the text: the
\* match of the list pattern, or else the match of the object pattern
SelectedSpan ==
  IF ListMatch(response_text).found THEN ListMatch(response_text)
  ELSE DictMatch(response_text)

\* C20: the parser returns for every text; when the span it matched in its
\* search of the text is not valid JSON it returns no call, and step then invokes nothing and returns
\* the no-call outcome (tool_name null, the no-parse reason, an empty
\* tool_calls), as it does for a text without any tool call
C20_ParserNeverRaises ==
  /\ [](/\ pc # "raised"
        /\ ~parsed.raised
        /\ HasParsed =>
             /\ (~WholeTextCalls /\ SelectedSpan.found
                 /\ ~JsonLoads(SubSeq(response_text, SelectedSpan.start,
                                      SelectedSpan.stop)).ok)
                  => parsed.tool_calls = << >>
             /\ (text_parts.kind = "object" /\ text_parts.items[1] \in BrokenObjects)
                  => parsed.tool_calls = << >>
             /\ text_parts.kind = "none" => parsed.tool_calls = << >>
        /\ pc = "step_done" =>
             /\ outcome.tool_name = Null
             /\ outcome.reason = ReasonNoParse
             /\ outcome.tool_calls = CallList(TRUE, << >>)
             /\ outcome.success = Absent
             /\ outcome.plan = parsed.plan
             /\ invoked = << >>
             /\ bindingCalls = 0)
  /\ [][(pc = "parsed" /\ parsed.tool_calls = << >>) => pc' = "step_done"]_vars

\* after a plan came an array whose second object has a trailing comma; the
\* list pattern matched it and step returned the no-call outcome
C20_Witness ==
  /\ pc = "step_done"
  /\ text_parts.kind = "array"
  /\ text_parts.items = <<CallHover, TrailingComma>>
  /\ text_parts.prefix = <<"plan">>
  /\ ListMatch(response_text).found
  /\ parsed.tool_calls = << >>
  /\ parsed.plan = "plan"
  /\ outcome.tool_name = Null
  /\ outcome.reason = ReasonNoParse

\* C21: no state persists across chat invocations: every chat call starts
\* from an empty history and its history holds one outcome per step of its
\* own; no step of chat or step changes the tool registry; and the second of
\* two chat calls that meet the same model answers and the same binding
\* behaviour returns the history the first one returned
C21_NoPersistentState ==
  /\ []((pc = "chat_loop" /\ step_num = 0) => history = << >>)
  /\ []((caller = "chat") => Len(history) \in {step_num, step_num + 1})
  /\ []((chatNo = 2 /\ pc = "done") => history = firstHistory)
  /\ [][tools' = tools]_vars

C21_Witness ==
  /\ chatNo = 2
  /\ pc = "done"
  /\ Len(firstHistory) >= 2
  /\ history = firstHistory
  /\ bindingCalls >= 4

\* the position of the running step is past the call of the model
PastGenerate == pc \in {"exec", "step_done", "raised"}

\* steps that have got as far as the call of the model and beyond
StepsAnswered ==
  IF caller = "chat" THEN Len(history) + (IF PastGenerate THEN 1 ELSE 0)
  ELSE IF caller = "direct" /\ PastGenerate THEN 1
  ELSE 0

\* C22: one model round-trip per step: the model has been invoked once for
\* every step that is past its call and never for a step that is not; it is
\* invoked only from the point where the request has been built (system
\* prompt, status, instruction at least), one invocation at a time; no
\* binding of a step is invoked before the model, and a binding call or the
\* return of step never invokes the model again; a chat that has returned a
\* history of length h has made h model invocations
C22_OneModelCall ==
  /\ [](modelCalls = StepsAnswered)
  /\ []((pc \in {"build", "generate"}) => invoked = << >>)
  /\ []((pc = "done") => modelCalls = Len(history))
  /\ [][(modelCalls' # modelCalls) =>
          (pc = "generate" /\ Len(messages) >= 3 /\ modelCalls' = modelCalls + 1
           /\ bindingCalls' = bindingCalls)]_vars
  /\ [][(bindingCalls' # bindingCalls) => (pc = "exec" /\ modelCalls' = modelCalls)]_vars

C22_Witness ==
  /\ pc = "done"
  /\ Len(history) = 3
  /\ modelCalls = 3
  /\ bindingCalls >= 3
  /\ Last(history).tool_name = Null

\* the request of the running step carries the warning in place of the status
StatusFailed == pc = "generate" /\ messages[2] = "status_warning"

\* an attached observer of a first step was given no status: the status
\* query of that step failed
StepAfterFailedStatus == ui_callback /\ uiStatus = Null /\ pc \in {"exec", "step_done"}

\* the order of the request: system prompt, status, instruction, the
\* observation if requested, the images carried forward
RequestInOrder ==
  LET n == Len(messages)
      k == Len(additional_images)
  IN /\ n = 3 + (IF include_observation THEN 1 ELSE 0) + k
     /\ messages[1] = "system"
     /\ messages[2] \in {"status", "status_warning"}
     /\ messages[3] = "user:" \o user_input
     /\ include_observation => messages[4] \in {"observation", "observation_warning"}
     /\ \A i \in 1..k : messages[n - k + i] = "image:" \o additional_images[i].camera

\* what step returns for the answer it parsed, given the bindings it called
ReturnsAsParsed ==
  LET g == Gate(tools, plan_text, tool_calls, RawText)
  IN IF g.kind = "outcome" THEN outcome = g.outcome /\ invoked = << >>
     ELSE \/ /\ Len(results) = Len(tool_calls)
             /\ \A j \in 1..Len(invoked) : ~invoked[j].raised
             /\ outcome = SuccessOutcome(plan_text, tool_calls, results)
          \/ /\ invoked # << >>
             /\ Last(invoked).raised
             /\ outcome.success = PyFalse
             /\ outcome.error_type = "execution_error"
             /\ outcome.results = CallList(TRUE, results)

\* C23: a failed status query does not end the step: building the request
\* always leads to the call of the model; the request has the warning in the
\* status position and keeps its order; the model is then invoked exactly
\* once, and the answer goes through the same gate and the same execution:
\* the step returns what the parsed answer and the called bindings give
C23_StatusRecovered ==
  /\ [][(pc = "build") => (pc' = "generate" /\ exc' = NoMsg)]_vars
  /\ []((pc = "generate") => RequestInOrder)
  /\ [][StatusFailed =>
          /\ modelCalls' = modelCalls + 1
          /\ bindingCalls' = bindingCalls
          /\ \/ pc' = "raised"
             \/ LET g == Gate(tools, plan_text', tool_calls', RawText)
                IN /\ g.kind = "outcome" => (pc' = "step_done" /\ outcome' = g.outcome)
                   /\ g.kind = "pass" => (pc' = "exec" /\ idx' = 1 /\ results' = << >>)]_vars
  /\ [](StepAfterFailedStatus => modelCalls = 1)
  /\ []((StepAfterFailedStatus /\ pc = "step_done") => ReturnsAsParsed)

C23_Witness ==
  /\ StepAfterFailedStatus
  /\ pc = "step_done"
  /\ Len(invoked) >= 2
  /\ outcome.tool_name = "__batch__"
  /\ outcome.success = PyTrue

\* the add_tool_call notifications that the bindings called so far call for
ToolCallNotes ==
  [j \in 1..Len(invoked) |->
     IF invoked[j].raised THEN "add_tool_call:False" ELSE "add_tool_call:True"]

\* C24: observer notification protocol: an attached observer has received
\* nothing before the answer of the model is parsed; from then on it has
\* received add_llm_output once, before any binding was called, and after it
\* one add_tool_call per called binding, in call order, with success true for
\* a binding that returned and false for one that raised; nothing for calls
\* that were not executed
C24_NotificationProtocol ==
  ui_callback =>
    /\ (pc \in {"idle", "build", "generate"}) => (uiLog = << >> /\ invoked = << >>)
    /\ (pc \in {"exec", "step_done"}) => uiLog = <<"add_llm_output">> \o ToolCallNotes

\* the lines of a text: the pieces between its line breaks
SplitLines(t) ==
  LET RECURSIVE From(_, _)
      From(k, line) ==
        IF k > Len(t) THEN <<line>>
        ELSE IF t[k] = "\n" THEN <<line>> \o From(k + 1, << >>)
        ELSE From(k + 1, Append(line, t[k]))
  IN IF t = << >> THEN << >> ELSE From(1, << >>)

\* the line gives the name, the description and the required parameters of
\* the entry in schema order, or the marker when it requires none
LineGives(line, e) ==
  /\ Len(line) >= 7
  /\ SubSeq(line, 1, 5) = <<"- ", e.name, ": ", e.description, " (">>
  /\ Last(line) = ")"
  /\ LET inner == SubSeq(line, 6, Len(line) - 1)
     IN IF e.required = << >> THEN inner = <<"no required params">>
        ELSE /\ inner[1] = "required: "
             /\ Len(inner) = 2 * Len(e.required)
             /\ SelectSeq(Tail(inner), LAMBDA x : x # ", ") = e.required

\* the entry a name stands for: the one last registered under it
InForce(name) ==
  IF name \in RegisterNames /\ regLatest[name] # NoEntry THEN regLatest[name]
  ELSE GetTool(RegisteredTools, name)

SummaryFollows(order) ==
  LET lines == SplitLines(regCall.summary)
  IN /\ Len(lines) = Len(order)
     /\ \A i \in 1..Len(order) : LineGives(lines[i], InForce(order[i]))

\* C25 as stated: the summary has one line per registered tool, in the order
\* in which the entries now registered were registered
C25_Original == (regCall.op = "summary") => SummaryFollows(regOrder)

\* C25: list_tools_summary returns one line per registered name, in the order
\* in which the names were first registered, each line giving the name, the
\* description and the required parameters (schema order, or the marker) of
\* the entry last registered under that name
C25_ToolsSummary == (regCall.op = "summary") => SummaryFollows(regFirst)

C25_Witness ==
  /\ regCall.op = "summary"
  /\ regOrder # regFirst
  /\ regLatest["stub_tool"] # NoEntry
  /\ regLatest["stub_tool"].required = << >>
  /\ regLatest["move_to_position"] # NoEntry
  /\ regLatest["move_to_position"].required = <<"z", "x">>
  /\ Len(SplitLines(regCall.summary)) = Len(RegisteredTools) + 1

AssistantResponses ==
  {"add_assistant_response:last step failed", "add_assistant_response:done"}

\* C26: the final report is faithful: when chat has ended with a non-empty
\* history and an observer attached, the observer has received
\* add_assistant_response once, as its last notification, and the message
\* says that the last step failed exactly when the last outcome has
\* success=false; an ending on tool_name=null is not reported as a failure
C26_FinalReport ==
  (pc = "done" /\ ui_callback /\ history # << >>) =>
    /\ Len(SelectSeq(uiLog, LAMBDA ev : ev \in AssistantResponses)) = 1
    /\ Last(uiLog) \in AssistantResponses
    /\ (Last(uiLog) = "add_assistant_response:last step failed")
         <=> (Last(history).success = PyFalse)
    /\ (Last(history).tool_name = Null)
         => Last(uiLog) # "add_assistant_response:last step failed"

\* the root logger is configured at most once, by a call that holds the
\* lock and with that call's arguments, and is left alone from then on
ConfiguredOnce ==
  /\ [](Len(handlers) <= 1)
  /\ [](configured => Len(handlers) = 1)
  /\ [][configured => (configured' /\ handlers' = handlers /\ root_level' = root_level)]_vars
  /\ [][(handlers' # handlers) =>
          \E t \in LogThreads :
             /\ config_lock = t
             /\ handlers' = <<[level |-> logCall[t].level, by |-> t]>>
             /\ root_level' = logCall[t].level]_vars

\* a call that returned gave back a logger of the configured root
ReturnedUsable ==
  [](\A t \in LogThreads :
       (logRet[t] = "logger") =>
         (configured /\ Len(handlers) = 1 /\ root_level = handlers[1].level))

\* the call of thread t ends in this step
CallEnds(t) == logPc[t] # "out" /\ logPc'[t] = "out"

\* C27 as stated: the root logger is configured exactly once, later
\* arguments are ignored, and every call returns a usable logger
C27_Original ==
  /\ ConfiguredOnce
  /\ ReturnedUsable
  /\ [][\A t \in LogThreads : CallEnds(t) => logRet'[t] = "logger"]_vars

\* C27: for any interleaving of setup_logging and get_logger calls the root
\* logger is configured at most once (one console handler), by the first
\* call that gets past the creation of its log directory, and the arguments
\* of every later call are ignored; a call returns a usable logger when the
\* logging is already configured or its log directory can be created;
\* otherwise it raises, adds no handler and leaves the logging unconfigured
C27_IdempotentLogging ==
  /\ ConfiguredOnce
  /\ ReturnedUsable
  /\ [][\A t \in LogThreads :
          CallEnds(t) =>
            IF configured \/ logCall[t].dirOk
            THEN logRet'[t] = "logger"
            ELSE /\ logRet'[t] = "raised"
                 /\ ~configured'
                 /\ handlers' = << >>
                 /\ root_level' = "WARNING"]_vars

C27_Witness ==
  /\ configured
  /\ handlers = <<[level |-> "INFO", by |-> 2]>>
  /\ logRet[1] = "raised"
  /\ logRet[2] = "logger"
  /\ logCalls[2] = MaxLogCalls
  /\ config_lock = 0

AllReturned == \A r \in Requests : reqPc[r] = "returned"

\* C28: responses stay with their request: a reply is never replaced by the
\* reply of another request, and once every request has returned, each pair
\* of chat_history holds a reply written for the request of its own user
\* message, none being left empty
C28_ResponsesStay ==
  /\ [](AllReturned =>
          \A i \in 1..Len(chat_history) :
             /\ chat_history[i].reply # NoReply
             /\ chat_history[i].reply.from = chat_history[i].user)
  /\ [][\A i \in 1..Len(chat_history) :
          (chat_history[i].reply # NoReply /\ chat_history'[i].reply # chat_history[i].reply)
            => chat_history'[i].reply.from = chat_history[i].reply.from]_vars

\* the n most recent of added arrivals, oldest first
Recent(added, n) ==
  LET k == Min({added, n}) IN [i \in 1..k |-> added - k + i]

\* C29: bounded observer buffers: whenever no thread is inside an add,
\* llm_outputs holds the 100 most recently added outputs and tool_calls the
\* 50 most recently added calls (fewer when fewer were added), oldest first;
\* get_tool_history returns the 20 most recent tool calls and
\* get_latest_llm_output the output added last
C29_BoundedBuffers ==
  /\ (ui_lock = 0) =>
       /\ Len(llm_outputs) <= LlmCap
       /\ Len(ui_tool_calls) <= ToolCap
       /\ llm_outputs = Recent(llmAdded, LlmCap)
       /\ ui_tool_calls = Recent(toolAdded, ToolCap)
  /\ (uiGot.op = "get_tool_history") =>
       (Len(uiGot.value) <= HistoryWindow /\ uiGot.value = Recent(toolAdded, HistoryWindow))
  /\ (uiGot.op = "get_latest_llm_output") => uiGot.value = Recent(llmAdded, 1)

C29_Witness ==
  /\ ui_lock = 0
  /\ llmAdded = LlmCap + 1
  /\ llm_outputs[1] = 2
  /\ toolAdded = ToolCap + 1
  /\ ui_tool_calls[1] = 2
  /\ uiGot.op = "get_tool_history"
  /\ uiGot.value[1] = ToolCap + 2 - HistoryWindow

Failed(e) == e.kind \in ConfirmErrors \cup EnableErrors

\* C30: bounded connection retry: connect makes at most max_retries
\* attempts, one at a time; it returns right after the first attempt in which
\* confirmConnection and enableApiControl both succeeded, with API control
\* enabled, and makes no attempt after it; when all max_retries attempts
\* failed (or max_retries is 0) it raises, carrying the error of the last
\* attempt; and a call always ends in one of the two ways
C30_BoundedRetry ==
  /\ [](attempt <= max_retries /\ Len(attemptLog) <= attempt)
  /\ [][(attempt' # attempt /\ connPc # "idle") =>
          (connPc = "loop" /\ attempt' = attempt + 1 /\ Len(attemptLog) = attempt)]_vars
  /\ []((connPc = "returned") =>
          /\ api_control
          /\ Len(attemptLog) = attempt
          /\ attemptLog[attempt].kind = "ok"
          /\ \A k \in 1..(attempt - 1) : Failed(attemptLog[k]))
  /\ []((connPc = "raised") =>
          /\ ~api_control
          /\ attempt = max_retries
          /\ Len(attemptLog) = max_retries
          /\ \A k \in 1..max_retries : Failed(attemptLog[k])
          /\ cause = (IF max_retries = 0 THEN NoError ELSE attemptLog[max_retries]))
  /\ [][(connPc \in {"returned", "raised"}) => UNCHANGED connVars]_vars
  /\ (connPc = "loop") ~> (connPc \in {"returned", "raised"})

C30_Witness ==
  /\ connPc = "raised"
  /\ max_retries = 3
  /\ cause = ConnError("no vehicle", 3)
  /\ attemptLog[1].kind = "refused"
  /\ attemptLog[2].kind = "timeout"
====
